---- MODULE Spec2Model ----
(***************************************************************************)
(* A model of the sweep-line path tesselator of vodk.rs                    *)
(* (lyon/src/tesselation/path_tesselator.rs): the event vector, the        *)
(* sweep line with its spans, the intersection queue and the monotone      *)
(* sub-tesselator, driven as the tests drive them (test_path and           *)
(* test_path_with_rotations).                                              *)
(*                                                                         *)
(* Positions are exact rationals <<X, Y, D>> standing for (X/D, Y/D) with  *)
(* D > 0, kept in lowest terms.  Angles are kept as the class of the       *)
(* directed angle: 0 for an angle of 0, 1 for an angle in (0, pi), 2 for   *)
(* pi and 3 for an angle in (pi, 2 pi), so that the comparisons of the     *)
(* source against PI read the same here with PI == 2.                      *)
(***************************************************************************)
EXTENDS Integers, Sequences, FiniteSets, TLC

\* ---------------------------------------------------------------- bounds

\* grid coordinates of the enumerated input paths are 0..GridMax
GridMax == 2
\* the enumerated input paths have 1..MaxVerts vertices
MaxVerts == 3
\* test_path_with_rotations is run with a step of a quarter turn: the
\* angles are 0..MaxTurns quarter turns
MaxTurns == 3

\* ------------------------------------------------------------ arithmetic

PI == 2

Abs(n) == IF n < 0 THEN -n ELSE n

RECURSIVE Gcd(_, _)
Gcd(a, b) == IF b = 0 THEN a ELSE Gcd(b, a % b)

\* the position (x/d, y/d) in lowest terms, d > 0
vec2(x, y, d) ==
    LET s == IF d < 0 THEN -1 ELSE 1
        g == Gcd(Gcd(Abs(x), Abs(y)), Abs(d))
    IN  <<(s * x) \div g, (s * y) \div g, (s * d) \div g>>

\* a - b, as a direction: the difference scaled by the positive a.d * b.d
Dir(a, b) == <<a[1] * b[3] - b[1] * a[3], a[2] * b[3] - b[2] * a[3]>>

cross(v, w) == v[1] * w[2] - v[2] * w[1]

dot(v, w) == v[1] * w[1] + v[2] * w[2]

\* a lies after b in the sweep order (y, then x)
is_below(a, b) ==
    \/ a[2] * b[3] > b[2] * a[3]
    \/ (a[2] * b[3] = b[2] * a[3] /\ a[1] * b[3] > b[1] * a[3])

\* atan2(0, 0) is 0: the null vector has the direction of (1, 0)
Atan2Dir(v) == IF v = <<0, 0>> THEN <<1, 0>> ELSE v

\* class of the angle atan2(v2) - atan2(v1), brought into [0, 2 pi)
directed_angle(v1, v2) ==
    LET a == Atan2Dir(v1)
        b == Atan2Dir(v2)
        c == cross(a, b)
    IN  IF c > 0 THEN 1
        ELSE IF c < 0 THEN 3
        ELSE IF dot(a, b) > 0 THEN 0 ELSE 2

directed_angle2(center, a, b) == directed_angle(Dir(a, center), Dir(b, center))

\* x of the line a-b at height y, as a rational <<n, d>>; <<0, 0>> is NaN
\* (a horizontal line); y is a rational <<n, d>>
line_horizontal_intersection(a, b, y) ==
    LET vx == b[1] * a[3] - a[1] * b[3]
        vy == b[2] * a[3] - a[2] * b[3]
        \* (y - a.y) as a rational over a.d * y.d
        dyn == y[1] * a[3] - a[2] * y[2]
    IN  IF vy = 0 THEN <<0, 0>>
        ELSE LET n == a[1] * y[2] * vy + dyn * vx
                 d == a[3] * y[2] * vy
             IN  IF d < 0 THEN <<-n, -d>> ELSE <<n, d>>

\* lx > x for a rational lx (NaN compares false) and a rational x
RatGreater(lx, x) == lx[2] # 0 /\ lx[1] * x[2] > x[1] * lx[2]

NoPoint == <<0, 0, 0>>

\* The crossing point of the segments a1-b1 and a2-b2 when they cross in
\* the interior of both, NoPoint otherwise (parallel segments never cross),
\* computed in stages: the end points over the common denominator L, the
\* vectors v1 = b1 - a1, v2 = b2 - a2 and v3 = a2 - a1, their cross
\* products, and the parameters tn / td and un / td of the crossing.

scaled(p, L) == <<p[1] * (L \div p[3]), p[2] * (L \div p[3])>>

minus(a, b) == <<a[1] - b[1], a[2] - b[2]>>

intersection_at(A1, v1, td, tn, un, L) ==
    IF tn > 0 /\ tn < td /\ un > 0 /\ un < td
    THEN vec2(A1[1] * td + v1[1] * tn, A1[2] * td + v1[2] * tn, L * td)
    ELSE NoPoint

signed_intersection(A1, v1, den, tn, un, L) ==
    IF den = 0 THEN NoPoint
    ELSE IF den < 0 THEN intersection_at(A1, v1, -den, -tn, -un, L)
    ELSE intersection_at(A1, v1, den, tn, un, L)

vector_intersection(A1, v1, v2, v3, L) ==
    signed_intersection(A1, v1, cross(v1, v2), cross(v3, v2), cross(v3, v1), L)

scaled_intersection(A1, B1, A2, B2, L) ==
    vector_intersection(A1, minus(B1, A1), minus(B2, A2), minus(A2, A1), L)

common_intersection(a1, b1, a2, b2, L) ==
    scaled_intersection(scaled(a1, L), scaled(b1, L), scaled(a2, L), scaled(b2, L), L)

segment_intersection(a1, b1, a2, b2) ==
    common_intersection(a1, b1, a2, b2, a1[3] * b1[3] * a2[3] * b2[3])

\* ------------------------------------------------------- stable sorting

\* Ordering::Greater of the comparison closures of set_path and of
\* test_intersection: a sorts after b
cmp_greater(va, vb) ==
    \/ va[2] * vb[3] > vb[2] * va[3]
    \/ (va[2] * vb[3] = vb[2] * va[3] /\ va[1] * vb[3] > vb[1] * va[3])

\* e put into the sorted sequence s of <<position, item>> pairs behind
\* every element that does not sort after it (the sort is stable)
RECURSIVE InsertSorted(_, _)
InsertSorted(s, e) ==
    IF s = <<>> THEN <<e>>
    ELSE IF cmp_greater(s[Len(s)][1], e[1])
         THEN Append(InsertSorted(SubSeq(s, 1, Len(s) - 1), e), s[Len(s)])
         ELSE Append(s, e)

\* slice::sort_by on a sequence of <<position, item>> pairs
RECURSIVE sort_by(_)
sort_by(s) ==
    IF s = <<>> THEN <<>>
    ELSE InsertSorted(sort_by(SubSeq(s, 1, Len(s) - 1)), s[Len(s)])

\* ------------------------------------------------- MonotoneTesselator

opposite(side) == IF side = "Left" THEN "Right" ELSE "Left"

MonotoneVertex(pos, id, side) == [pos |-> pos, id |-> id, side |-> side]

mt_begin(pos, id) ==
    LET first == MonotoneVertex(pos, id, "Left")
    IN  [stack |-> <<first>>, previous |-> first, triangles |-> <<>>]

\* the index triple push_triangle records
push_triangle(a, b, c) ==
    IF directed_angle(Dir(c.pos, b.pos), Dir(a.pos, b.pos)) <= PI
    THEN <<a.id, b.id, c.id>>
    ELSE <<b.id, a.id, c.id>>

\* the loop of a change of side recording each pair of the stack with the
\* current vertex in the order of the stack, whatever the side
FanTriangles_stack_order(stack, current) ==
    [i \in 1..(Len(stack) - 1) |-> <<stack[i].id, stack[i + 1].id, current.id>>]

\* the triangles of a change of side: one per consecutive pair of the stack
FanTriangles(stack, current) ==
    [i \in 1..(Len(stack) - 1) |->
        IF current.side = "Right"
        THEN push_triangle(stack[i + 1], stack[i], current)
        ELSE push_triangle(stack[i], stack[i + 1], current)]

\* the pop loop of a vertex on the side of the previous one
RECURSIVE PopLoop(_, _, _, _)
PopLoop(stack, last_popped, triangles, current) ==
    IF stack = <<>>
    THEN [stack |-> <<last_popped>>, triangles |-> triangles]
    ELSE LET top == stack[Len(stack)]
             a == IF current.side = "Right" THEN top ELSE last_popped
             b == IF current.side = "Right" THEN last_popped ELSE top
         IN  IF directed_angle(Dir(current.pos, b.pos), Dir(a.pos, b.pos)) <= PI
             THEN PopLoop(SubSeq(stack, 1, Len(stack) - 1), top,
                          Append(triangles, push_triangle(a, b, current)), current)
             ELSE [stack |-> Append(stack, last_popped), triangles |-> triangles]

\* the two assertions at the head of MonotoneTesselator::vertex
mt_vertex_asserts(mt, pos) == is_below(pos, mt.previous.pos) /\ mt.stack # <<>>

mt_vertex(mt, pos, id, side) ==
    LET current == MonotoneVertex(pos, id, side)
    IN  IF current.side # mt.previous.side
        THEN [stack |-> <<mt.previous, current>>,
              previous |-> current,
              triangles |-> mt.triangles \o FanTriangles(mt.stack, current)]
        ELSE LET r == PopLoop(SubSeq(mt.stack, 1, Len(mt.stack) - 1),
                              mt.stack[Len(mt.stack)], mt.triangles, current)
             IN  [stack |-> Append(r.stack, current),
                  previous |-> current,
                  triangles |-> r.triangles]

\* end feeding the last vertex on the side of the previous vertex
mt_end_same_side(mt, pos, id) ==
    [mt_vertex(mt, pos, id, mt.previous.side) EXCEPT !.stack = <<>>]

mt_end(mt, pos, id) ==
    [mt_vertex(mt, pos, id, opposite(mt.previous.side)) EXCEPT !.stack = <<>>]

\* --------------------------------------------------- IdLookupTable

FREE_LIST_NONE == 2147483647

\* v[i] of a Vec, its bounds check, and the Vec after v[i] = x
At(v, i) == v[i + 1]

InBounds(v, i) == i >= 0 /\ i < Len(v)

Set(v, i, x) == [v EXCEPT ![i + 1] = x]

\* The table is a record of the three fields of the struct and panic: ""
\* while no call has panicked, the reason once one has.

new ==
    [data_to_index |-> <<>>, index_to_data |-> <<>>,
     free_list |-> FREE_LIST_NONE, panic |-> ""]

with_capacity(capacity) ==
    [data_to_index |-> <<>>, index_to_data |-> <<>>,
     free_list |-> FREE_LIST_NONE, panic |-> ""]

OutOfBounds(t) == [t EXCEPT !.panic = "index out of bounds"]

\* the Index add returns
add_returns(t) ==
    IF t.free_list = FREE_LIST_NONE THEN Len(t.index_to_data) ELSE t.free_list

\* add that leaves the head of the free list where it was
add_keeps_free_list(t) ==
    IF t.free_list = FREE_LIST_NONE
    THEN [t EXCEPT !.index_to_data = Append(@, Len(t.data_to_index)),
                   !.data_to_index = Append(@, Len(t.index_to_data))]
    ELSE LET idx == t.free_list
         IN  IF ~InBounds(t.index_to_data, idx) THEN OutOfBounds(t)
             ELSE [t EXCEPT !.index_to_data = Set(@, idx, Len(t.data_to_index)),
                            !.data_to_index = Append(@, idx)]

add(t) ==
    IF t.free_list = FREE_LIST_NONE
    THEN [t EXCEPT !.index_to_data = Append(@, Len(t.data_to_index)),
                   !.data_to_index = Append(@, Len(t.index_to_data))]
    ELSE LET idx == t.free_list
         IN  IF ~InBounds(t.index_to_data, idx) THEN OutOfBounds(t)
             ELSE [t EXCEPT !.free_list = At(t.index_to_data, idx),
                            !.index_to_data = Set(@, idx, Len(t.data_to_index)),
                            !.data_to_index = Append(@, idx)]

\* remove leaving the back-pointer of the moved id as it was
remove_without_back_pointer(t, idx) ==
    IF ~InBounds(t.index_to_data, idx) THEN OutOfBounds(t)
    ELSE IF t.data_to_index = <<>> THEN [t EXCEPT !.panic = "arithmetic overflow"]
    ELSE LET o == At(t.index_to_data, idx)
             popped == SubSeq(t.data_to_index, 1, Len(t.data_to_index) - 1)
             moved == t.data_to_index[Len(t.data_to_index)]
         IN  IF o = Len(t.data_to_index) - 1
             THEN [t EXCEPT !.data_to_index = popped,
                            !.index_to_data = Set(@, idx, t.free_list),
                            !.free_list = idx]
             ELSE IF ~InBounds(t.index_to_data, moved) \/ ~InBounds(popped, o)
             THEN OutOfBounds(t)
             ELSE [t EXCEPT !.data_to_index = Set(popped, o, moved),
                            !.index_to_data = Set(@, idx, t.free_list),
                            !.free_list = idx]

remove(t, idx) ==
    IF ~InBounds(t.index_to_data, idx) THEN OutOfBounds(t)
    ELSE IF t.data_to_index = <<>> THEN [t EXCEPT !.panic = "arithmetic overflow"]
    ELSE LET o == At(t.index_to_data, idx)
             popped == SubSeq(t.data_to_index, 1, Len(t.data_to_index) - 1)
             moved == t.data_to_index[Len(t.data_to_index)]
         IN  IF o = Len(t.data_to_index) - 1
             THEN [t EXCEPT !.data_to_index = popped,
                            !.index_to_data = Set(@, idx, t.free_list),
                            !.free_list = idx]
             ELSE IF ~InBounds(t.index_to_data, moved) \/ ~InBounds(popped, o)
             THEN OutOfBounds(t)
             ELSE [t EXCEPT !.data_to_index = Set(popped, o, moved),
                            !.index_to_data = Set(Set(@, moved, o), idx, t.free_list),
                            !.free_list = idx]

clear(t) ==
    [t EXCEPT !.free_list = FREE_LIST_NONE, !.data_to_index = <<>>, !.index_to_data = <<>>]

lookup(t, idx) == At(t.index_to_data, idx)

index_for_offset(t, idx) == At(t.data_to_index, idx)

len(t) == Len(t.data_to_index)

swap_offsets(t, o1, o2) ==
    IF ~InBounds(t.data_to_index, o1) \/ ~InBounds(t.data_to_index, o2) THEN OutOfBounds(t)
    ELSE LET temp == At(t.data_to_index, o1)
             data_to_index == Set(Set(t.data_to_index, o1, At(t.data_to_index, o2)), o2, temp)
         IN  IF ~InBounds(t.index_to_data, At(data_to_index, o2))
                \/ ~InBounds(t.index_to_data, At(data_to_index, o1))
             THEN OutOfBounds(t)
             ELSE [t EXCEPT !.data_to_index = data_to_index,
                            !.index_to_data = Set(Set(@, At(data_to_index, o2), o1),
                                                  At(data_to_index, o1), o2)]

swap_at_indices(t, idx1, idx2) ==
    IF ~InBounds(t.index_to_data, idx1) \/ ~InBounds(t.index_to_data, idx2) THEN OutOfBounds(t)
    ELSE swap_offsets(t, lookup(t, idx1), lookup(t, idx2))

\* ----------------------------------------------- PodFreeListVector

\* The vector is a record of the two fields of the struct and panic; a slot
\* is a record of its payload and its free_list link.  The methods carry
\* the name of the struct in front: add, remove and new are the names of
\* the methods of IdLookupTable above.

FreeListVectorSlot(payload, free_list) == [payload |-> payload, free_list |-> free_list]

PodFreeListVector_new == [data |-> <<>>, free_list |-> FREE_LIST_NONE, panic |-> ""]

\* the Index add returns
PodFreeListVector_add_returns(v) ==
    IF v.free_list = FREE_LIST_NONE THEN Len(v.data) ELSE v.free_list

PodFreeListVector_add(v, val) ==
    IF v.free_list = FREE_LIST_NONE
    THEN [v EXCEPT !.data = Append(@, FreeListVectorSlot(val, FREE_LIST_NONE))]
    ELSE IF ~InBounds(v.data, v.free_list) THEN OutOfBounds(v)
    ELSE [v EXCEPT !.data = Set(@, v.free_list,
                                FreeListVectorSlot(val, At(v.data, v.free_list).free_list)),
                   !.free_list = At(v.data, v.free_list).free_list]

PodFreeListVector_remove(v, idx) ==
    IF ~InBounds(v.data, idx) THEN OutOfBounds(v)
    ELSE [v EXCEPT !.data = Set(@, idx, FreeListVectorSlot(At(v.data, idx).payload,
                                                          v.free_list)),
                   !.free_list = idx]

\* borrow and borrow_mut: ok is whether the index is in bounds and the
\* assertion holds, payload what the reference returned points to
PodFreeListVector_borrow(v, id) ==
    IF ~InBounds(v.data, id) THEN [ok |-> FALSE, panic |-> "index out of bounds", payload |-> 0]
    ELSE IF At(v.data, id).free_list # FREE_LIST_NONE
    THEN [ok |-> FALSE, panic |-> "assert free_list == FREE_LIST_NONE", payload |-> 0]
    ELSE [ok |-> TRUE, panic |-> "", payload |-> At(v.data, id).payload]

PodFreeListVector_borrow_mut(v, idx) ==
    IF ~InBounds(v.data, idx) THEN [ok |-> FALSE, panic |-> "index out of bounds", payload |-> 0]
    ELSE IF At(v.data, idx).free_list # FREE_LIST_NONE
    THEN [ok |-> FALSE, panic |-> "assert free_list == FREE_LIST_NONE", payload |-> 0]
    ELSE [ok |-> TRUE, panic |-> "", payload |-> At(v.data, idx).payload]

\* ------------------------------------------------------------- IdVec

\* The IdVec is the sequence of its elements (the field data); an Id is
\* modelled by its index (to_index, from_index).

IdVec_new == <<>>

\* Data::default() of the element type of test_id_vector (u32)
Default == 0

IdVec_len(v) == Len(v)

IdVec_push(v, elt) == Append(v, elt)

IdVec_clear(v) == <<>>

\* self[id], where the index is in bounds
IdVec_index(v, id) == At(v, id)

\* the loop of set: default values pushed while len() is below the index
RECURSIVE PushDefaults(_, _)
PushDefaults(v, index) ==
    IF IdVec_len(v) < index THEN PushDefaults(IdVec_push(v, Default), index) ELSE v

\* set that pushes the value without filling the slots below its index
IdVec_set_without_fill(v, id, val) ==
    IF IdVec_len(v) <= id THEN IdVec_push(v, val) ELSE Set(v, id, val)

IdVec_set(v, id, val) ==
    IF IdVec_len(PushDefaults(v, id)) = id
    THEN IdVec_push(PushDefaults(v, id), val)
    ELSE Set(PushDefaults(v, id), id, val)

\* the loops of resize: default values pushed or elements popped
IdVec_resize(v, size) ==
    IF size > IdVec_len(v) THEN PushDefaults(v, size) ELSE SubSeq(v, 1, size)

\* ------------------------------------------------------------ Span

Vertex(position, id) == [position |-> position, id |-> id]

SpanEdge(upper, lower, merge) == [upper |-> upper, lower |-> lower, merge |-> merge]

span_begin(l, r) ==
    [left |-> l, right |-> r,
     monotone_tesselator |-> mt_begin(l.upper.position, l.upper.id)]

\* The tesselator's state is threaded through its methods as a record t
\* with the fields spans, intersections, next_new_vertex, vertices and
\* indices (the sink) and panic: "" while the call runs, the failed
\* assertion, unreachable!() or index check once it has aborted.  Span
\* indices count from 0 as in the source.

Panic(t, why) == [t EXCEPT !.panic = why]

InRange(t, i) == i >= 0 /\ i < Len(t.spans)

\* the span with the edge of the given side replaced (Span::mut_edge)
mut_edge(span, side, edge) ==
    IF side = "Left" THEN [span EXCEPT !.left = edge] ELSE [span EXCEPT !.right = edge]

edge_of(span, side) == IF side = "Left" THEN span.left ELSE span.right

set_upper_vertex(t, i, vertex, side) ==
    IF t.panic # "" THEN t
    ELSE IF ~InRange(t, i) THEN Panic(t, "index out of bounds")
    ELSE LET span == t.spans[i + 1]
             mt == span.monotone_tesselator
         IN  IF ~is_below(vertex.position, mt.previous.pos)
             THEN Panic(t, "assert is_below")
             ELSE IF mt.stack = <<>>
             THEN Panic(t, "assert stack")
             ELSE [t EXCEPT !.spans[i + 1] =
                     [mut_edge(span, side, [edge_of(span, side) EXCEPT !.upper = vertex])
                        EXCEPT !.monotone_tesselator =
                            mt_vertex(mt, vertex.position, vertex.id, side)]]

set_lower_vertex(t, i, vertex, side) ==
    IF t.panic # "" THEN t
    ELSE IF ~InRange(t, i) THEN Panic(t, "index out of bounds")
    ELSE LET span == t.spans[i + 1]
         IN  [t EXCEPT !.spans[i + 1] =
                 mut_edge(span, side,
                     [edge_of(span, side) EXCEPT !.lower = vertex, !.merge = FALSE])]

set_no_lower_vertex(t, i, side) ==
    IF t.panic # "" THEN t
    ELSE IF ~InRange(t, i) THEN Panic(t, "index out of bounds")
    ELSE LET span == t.spans[i + 1]
         IN  [t EXCEPT !.spans[i + 1] =
                 mut_edge(span, side, [edge_of(span, side) EXCEPT !.merge = TRUE])]

span_vertex(t, i, vertex, next_vertex, side) ==
    set_lower_vertex(set_upper_vertex(t, i, vertex, side), i, next_vertex, side)

merge_vertex(t, i, vertex, side) ==
    set_no_lower_vertex(set_upper_vertex(t, i, vertex, side), i, side)

\* Vec::insert(i, x) and Vec::remove(i) on a sequence, i counted from 0
VecInsert(s, i, x) == SubSeq(s, 1, i) \o <<x>> \o SubSeq(s, i + 1, Len(s))

VecRemove(s, i) == SubSeq(s, 1, i) \o SubSeq(s, i + 2, Len(s))

spans_insert(t, i, span) ==
    IF t.panic # "" THEN t
    ELSE IF i < 0 \/ i > Len(t.spans) THEN Panic(t, "index out of bounds")
    ELSE [t EXCEPT !.spans = VecInsert(t.spans, i, span)]

\* Span::end, MonotoneTesselator::flush and the removal of the span
end_span(t, i, vertex) ==
    IF t.panic # "" THEN t
    ELSE IF ~InRange(t, i) THEN Panic(t, "index out of bounds")
    ELSE LET mt == t.spans[i + 1].monotone_tesselator
         IN  IF ~is_below(vertex.position, mt.previous.pos)
             THEN Panic(t, "assert is_below")
             ELSE IF mt.stack = <<>>
             THEN Panic(t, "assert stack")
             ELSE [t EXCEPT
                     !.indices = t.indices \o mt_end(mt, vertex.position, vertex.id).triangles,
                     !.spans = VecRemove(t.spans, i)]

\* --------------------------------------------- intersection detection

Intersection(point, a_down, b_down) ==
    [point |-> point, a_down |-> a_down, b_down |-> b_down]

\* the queue sorted by the position of the points
sort_intersections(q) ==
    LET s == sort_by([k \in 1..Len(q) |-> <<q[k].point.position, q[k]>>])
    IN  [k \in 1..Len(s) |-> s[k][2]]

\* new_vertex that does not move next_new_vertex on
new_vertex_same_id(t, pos) == [t EXCEPT !.vertices = Append(t.vertices, pos)]

\* the tesselator after new_vertex(pos): the vertex returned has the id
\* t.next_new_vertex, and its position has been pushed to the sink
new_vertex(t, pos) ==
    [t EXCEPT !.next_new_vertex = t.next_new_vertex + 1,
              !.vertices = Append(t.vertices, pos)]

\* the intersection event pushed and the queue sorted again
queue_intersection(t, point, edge, down, swapped) ==
    [t EXCEPT !.intersections =
        sort_intersections(Append(t.intersections,
                                  IF swapped THEN Intersection(point, edge.lower, down)
                                             ELSE Intersection(point, down, edge.lower)))]

\* found_intersection that never exchanges the two lower vertices
found_intersection_no_exchange(t, edge, down, intersection) ==
    IF intersection = NoPoint THEN t
    ELSE queue_intersection(new_vertex(t, intersection),
                            Vertex(intersection, t.next_new_vertex), edge, down, FALSE)

\* the body of `if let Some(intersection) = ...` in test_intersection
found_intersection(t, edge, down, intersection) ==
    IF intersection = NoPoint THEN t
    ELSE queue_intersection(new_vertex(t, intersection),
                            Vertex(intersection, t.next_new_vertex), edge, down,
                            directed_angle2(intersection, edge.lower.position,
                                            down.position) > PI)

test_intersection(t, edge, up, down) ==
    IF t.panic # "" THEN t
    ELSE IF ~edge.merge /\ edge.lower.id # up.id /\ edge.lower.id # down.id
    THEN found_intersection(t, edge, down,
                            segment_intersection(edge.upper.position, edge.lower.position,
                                                 up.position, down.position))
    ELSE t

\* the edges check_intersections tests, in its order
EdgesToTest(spans, span_index, side) ==
    LET E(idx) == (IF idx # span_index \/ side = "Right" THEN <<spans[idx + 1].left>> ELSE <<>>)
                  \o (IF idx # span_index \/ side = "Left" THEN <<spans[idx + 1].right>> ELSE <<>>)
        RECURSIVE All(_)
        All(idx) == IF idx >= Len(spans) THEN <<>> ELSE E(idx) \o All(idx + 1)
    IN  All(0)

RECURSIVE TestEdges(_, _, _, _)
TestEdges(t, edges, up, down) ==
    IF edges = <<>> THEN t
    ELSE TestEdges(test_intersection(t, edges[1], up, down), Tail(edges), up, down)

check_intersections(t, span_index, side, up, down) ==
    IF t.panic # "" THEN t
    ELSE TestEdges(t, EdgesToTest(t.spans, span_index, side), up, down)

insert_edge(t, span_index, side, up, down) ==
    span_vertex(check_intersections(t, span_index, side, up, down), span_index, up, down, side)

\* insert_edge_no_intersection that tests the inserted edge as insert_edge
\* does
insert_edge_tested(t, span_index, side, up, down) ==
    span_vertex(check_intersections(t, span_index, side, up, down), span_index, up, down, side)

insert_edge_no_intersection(t, span_index, side, up, down) ==
    span_vertex(t, span_index, up, down, side)

\* ------------------------------------------------------ event handlers

\* the first span with a non parked edge whose lower vertex is `vertex`;
\* found is FALSE where the source reaches unreachable!()
find_span_and_side(t, vertex) ==
    LET Hit(k) == \/ (~t.spans[k].left.merge /\ t.spans[k].left.lower.id = vertex)
                  \/ (~t.spans[k].right.merge /\ t.spans[k].right.lower.id = vertex)
        hits == {k \in 1..Len(t.spans) : Hit(k)}
    IN  IF hits = {} THEN [found |-> FALSE, span_index |-> 0, side |-> "Left"]
        ELSE LET k == CHOOSE h \in hits : \A g \in hits : h <= g
             IN  [found |-> TRUE, span_index |-> k - 1,
                  side |-> IF ~t.spans[k].left.merge /\ t.spans[k].left.lower.id = vertex
                           THEN "Left" ELSE "Right"]

\* on_left_event (check = TRUE) and on_left_event_no_intersection
LeftEvent(t, span_index, current, next, check) ==
    IF t.panic # "" THEN t
    ELSE IF ~InRange(t, span_index) THEN Panic(t, "index out of bounds")
    ELSE LET t1 == IF t.spans[span_index + 1].right.merge
                   THEN end_span(set_lower_vertex(t, span_index + 1, current, "Left"),
                                 span_index, current)
                   ELSE t
         IN  IF check THEN insert_edge(t1, span_index, "Left", current, next)
                      ELSE insert_edge_no_intersection(t1, span_index, "Left", current, next)

on_left_event(t, span_index, current, next) ==
    LeftEvent(t, span_index, current, next, TRUE)

on_left_event_no_intersection(t, span_index, current, next) ==
    LeftEvent(t, span_index, current, next, FALSE)

on_right_event(t, span_index, current, next) ==
    insert_edge(t, span_index, "Right", current, next)

on_right_event_no_intersection(t, span_index, current, next) ==
    insert_edge_no_intersection(t, span_index, "Right", current, next)

on_regular_event(t, current, next) ==
    LET f == find_span_and_side(t, current.id)
    IN  IF ~f.found THEN Panic(t, "unreachable find_span_and_side")
        ELSE IF f.side = "Left" THEN on_left_event(t, f.span_index, current, next)
        ELSE on_right_event(t, f.span_index, current, next)

\* find_span_up with the test `rx > x` of the right edge written
\* `!(rx <= x)`, which a NaN passes
find_span_up_not_less_equal(t, vertex) ==
    LET x == <<vertex.position[1], vertex.position[3]>>
        y == <<vertex.position[2], vertex.position[3]>>
        NotLessEqual(lx) == lx = <<0, 0>> \/ RatGreater(lx, x)
        LeftOut(k) == /\ ~t.spans[k].left.merge
                      /\ RatGreater(line_horizontal_intersection(
                             t.spans[k].left.upper.position,
                             t.spans[k].left.lower.position, y), x)
        RightIn(k) == /\ ~t.spans[k].right.merge
                      /\ NotLessEqual(line_horizontal_intersection(
                             t.spans[k].right.upper.position,
                             t.spans[k].right.lower.position, y))
        hits == {k \in 1..Len(t.spans) : LeftOut(k) \/ RightIn(k)}
    IN  IF hits = {} THEN [span_index |-> Len(t.spans), is_inside |-> FALSE]
        ELSE LET k == CHOOSE h \in hits : \A g \in hits : h <= g
             IN  [span_index |-> k - 1, is_inside |-> ~LeftOut(k)]

\* (span_index, is_inside) of an up-event vertex
find_span_up(t, vertex) ==
    LET x == <<vertex.position[1], vertex.position[3]>>
        y == <<vertex.position[2], vertex.position[3]>>
        LeftOut(k) == /\ ~t.spans[k].left.merge
                      /\ RatGreater(line_horizontal_intersection(
                             t.spans[k].left.upper.position,
                             t.spans[k].left.lower.position, y), x)
        RightIn(k) == /\ ~t.spans[k].right.merge
                      /\ RatGreater(line_horizontal_intersection(
                             t.spans[k].right.upper.position,
                             t.spans[k].right.lower.position, y), x)
        hits == {k \in 1..Len(t.spans) : LeftOut(k) \/ RightIn(k)}
    IN  IF hits = {} THEN [span_index |-> Len(t.spans), is_inside |-> FALSE]
        ELSE LET k == CHOOSE h \in hits : \A g \in hits : h <= g
             IN  [span_index |-> k - 1, is_inside |-> ~LeftOut(k)]

on_split_event(t, current, span_index, l, r) ==
    IF ~InRange(t, span_index) THEN Panic(t, "index out of bounds")
    ELSE IF t.spans[span_index + 1].left.merge
    THEN span_vertex(span_vertex(t, span_index - 1, current, l.lower, "Right"),
                     span_index, current, r.lower, "Left")
    ELSE LET ll == t.spans[span_index + 1].left
             r2 == SpanEdge(ll.upper, current, FALSE)
             t1 == spans_insert(t, span_index, span_begin(ll, r2))
             t2 == insert_edge(t1, span_index, "Right", current, l.lower)
         IN  insert_edge(t2, span_index + 1, "Left", current, r.lower)

\* the left and right edge of an up-event, after the swap on the angle
\* the edges of an up-event without the exchange on the angle
UpEdges_as_given(event) ==
    [l |-> SpanEdge(event.current, event.previous, FALSE),
     r |-> SpanEdge(event.current, event.next, FALSE)]

UpEdges(event) ==
    LET l == SpanEdge(event.current, event.previous, FALSE)
        r == SpanEdge(event.current, event.next, FALSE)
        angle == directed_angle(Dir(event.previous.position, event.current.position),
                                Dir(event.next.position, event.current.position))
    IN  IF angle < PI THEN [l |-> r, r |-> l] ELSE [l |-> l, r |-> r]

on_up_event(t, event) ==
    LET f == find_span_up(t, event.current)
        e == UpEdges(event)
    IN  IF f.is_inside
        THEN on_split_event(t, event.current, f.span_index, e.l, e.r)
        ELSE LET non_existant_index == Len(t.spans)
                 t1 == check_intersections(t, non_existant_index, "Left", e.l.upper, e.l.lower)
                 t2 == check_intersections(t1, non_existant_index, "Right", e.r.upper, e.r.lower)
             IN  spans_insert(t2, f.span_index, span_begin(e.l, e.r))

on_end_event(t, vertex, span_index) ==
    IF t.panic # "" THEN t
    ELSE IF ~InRange(t, span_index) THEN Panic(t, "index out of bounds")
    ELSE LET t1 == IF t.spans[span_index + 1].right.merge
                   THEN end_span(t, span_index, vertex)
                   ELSE t
         IN  end_span(t1, span_index, vertex)

on_merge_event(t, vertex, span_index) ==
    IF ~(span_index < Len(t.spans) - 1) THEN Panic(t, "assert span_index < len - 1")
    ELSE LET t1 == IF t.spans[span_index + 1].right.merge
                   THEN end_span(set_lower_vertex(t, span_index + 2, vertex, "Left"),
                                 span_index + 1, vertex)
                   ELSE t
         IN  IF t1.panic # "" THEN t1
             ELSE IF ~InRange(t1, span_index + 1) THEN Panic(t1, "index out of bounds")
             ELSE IF t1.spans[span_index + 2].left.lower.id # vertex.id
             THEN Panic(t1, "debug_assert left.lower.id == vertex.id")
             ELSE merge_vertex(merge_vertex(t1, span_index, vertex, "Right"),
                               span_index + 1, vertex, "Left")

on_down_event(t, vertex) ==
    LET f == find_span_and_side(t, vertex.id)
    IN  IF ~f.found THEN Panic(t, "unreachable find_span_and_side")
        ELSE IF f.side = "Left" THEN on_end_event(t, vertex, f.span_index)
        ELSE on_merge_event(t, vertex, f.span_index)

\* on_event with the test of the down-event written with `||`
EventKind_either_below(event) ==
    LET below_prev == is_below(event.current.position, event.previous.position)
        below_next == is_below(event.current.position, event.next.position)
    IN  IF below_prev \/ below_next THEN "down"
        ELSE IF ~below_prev /\ ~below_next THEN "up"
        ELSE "regular"

\* "down", "up" or "regular": the branch on_event takes
EventKind(event) ==
    LET below_prev == is_below(event.current.position, event.previous.position)
        below_next == is_below(event.current.position, event.next.position)
    IN  IF below_prev /\ below_next THEN "down"
        ELSE IF ~below_prev /\ ~below_next THEN "up"
        ELSE "regular"

\* the second argument on_event gives to on_regular_event
RegularNext(event) ==
    LET next_below_prev == is_below(event.next.position, event.current.position)
    IN  IF next_below_prev THEN event.next ELSE event.previous

on_event(t, event) ==
    IF EventKind(event) = "down" THEN on_down_event(t, event.current)
    ELSE IF EventKind(event) = "up" THEN on_up_event(t, event)
    ELSE on_regular_event(t, event.current, RegularNext(event))

\* which form of replay on_intersection_event takes: "LR", "UD", or
\* "unreachable" when no span has b_down as the lower vertex of an edge
IntersectionKind(t, intersection) ==
    LET b == intersection.b_down.id
        hits == {k \in 1..Len(t.spans) :
                    t.spans[k].right.lower.id = b \/ t.spans[k].left.lower.id = b}
    IN  IF hits = {} THEN [kind |-> "unreachable", idx |-> 0]
        ELSE LET k == CHOOSE h \in hits : \A g \in hits : h <= g
             IN  [kind |-> IF t.spans[k].right.lower.id = b THEN "LR" ELSE "UD",
                  idx |-> k - 1]

on_intersection_event(t, intersection) ==
    LET f == IntersectionKind(t, intersection)
    IN  IF f.kind = "unreachable" THEN Panic(t, "unreachable on_intersection_event")
        ELSE IF f.kind = "LR"
        THEN on_left_event_no_intersection(
                 on_right_event_no_intersection(t, f.idx, intersection.point,
                                                intersection.a_down),
                 f.idx + 1, intersection.point, intersection.b_down)
        ELSE spans_insert(on_end_event(t, intersection.point, f.idx), f.idx,
                          span_begin(SpanEdge(intersection.point, intersection.a_down, FALSE),
                                     SpanEdge(intersection.point, intersection.b_down, FALSE)))

\* ------------------------------------------------------------- paths

\* A path is a sequence of sub-paths, each the sequence of the positions of
\* its vertices; the vertex ids count from 0 through the sub-paths in order.

RECURSIVE path_vertices(_)
path_vertices(path) ==
    IF path = <<>> THEN <<>> ELSE path[1] \o path_vertices(Tail(path))

num_vertices(path) == Len(path_vertices(path))

vertex_position(path, id) == path_vertices(path)[id + 1]

\* the id of the first vertex of sub-path k
RECURSIVE SubPathOffset(_, _)
SubPathOffset(path, k) ==
    IF k = 1 THEN 0 ELSE SubPathOffset(path, k - 1) + Len(path[k - 1])

SubPathOf(path, id) ==
    CHOOSE k \in 1..Len(path) :
        id >= SubPathOffset(path, k) /\ id < SubPathOffset(path, k) + Len(path[k])

path_next(path, id) ==
    LET k == SubPathOf(path, id)
        o == SubPathOffset(path, k)
    IN  o + ((id - o + 1) % Len(path[k]))

path_previous(path, id) ==
    LET k == SubPathOf(path, id)
        o == SubPathOffset(path, k)
    IN  o + ((id - o + Len(path[k]) - 1) % Len(path[k]))

\* the ids of the vertices of all sub-paths, in the order of the sub-paths
vertex_ids(path) == [k \in 1..num_vertices(path) |-> k - 1]

\* set_path without the call of clear
set_path_without_clear(old, path) ==
    LET ids == old \o vertex_ids(path)
        s == sort_by([k \in 1..Len(ids) |-> <<vertex_position(path, ids[k]), ids[k]>>])
    IN  [k \in 1..Len(s) |-> s[k][2]]

\* EventVector::set_path on a vector holding `old`: cleared, extended with
\* the ids of all sub-paths and sorted by position
set_path(old, path) ==
    LET cleared == SubSeq(old, 1, 0)
        ids == cleared \o vertex_ids(path)
        s == sort_by([k \in 1..Len(ids) |-> <<vertex_position(path, ids[k]), ids[k]>>])
    IN  [k \in 1..Len(s) |-> s[k][2]]

\* the Event built by tesselate for the vertex e
Event(path, e) ==
    [current  |-> Vertex(vertex_position(path, e), e),
     previous |-> Vertex(vertex_position(path, path_previous(path, e)),
                         path_previous(path, e)),
     next     |-> Vertex(vertex_position(path, path_next(path, e)), path_next(path, e))]

\* test_path_with_rotations: every vertex turned by `turns` quarter turns
Cos(turns) == <<1, 0, -1, 0>>[(turns % 4) + 1]

Sin(turns) == <<0, 1, 0, -1>>[(turns % 4) + 1]

Rotate(p, turns) ==
    <<p[1] * Cos(turns) + p[2] * Sin(turns), p[2] * Cos(turns) - p[1] * Sin(turns), p[3]>>

transformed_path(path, turns) ==
    [k \in 1..Len(path) |-> [j \in 1..Len(path[k]) |-> Rotate(path[k][j], turns)]]

\* ------------------------------------------------------------ inputs

P(x, y) == <<x, y, 1>>

\* the paths of the tests of path_tesselator.rs
simple_monotone == <<<<P(0, 0), P(-1, 1), P(-3, 2), P(-1, 3), P(-4, 5), P(0, 6)>>>>

simple_split == <<<<P(0, 0), P(2, 1), P(2, 3), P(1, 2), P(0, 3)>>>>

simple_merge_split == <<<<P(0, 0), P(1, 1), P(2, 0), P(2, 3), P(1, 2), P(0, 3)>>>>

simple_aligned ==
    <<<<P(0, 0), P(1, 0), P(2, 0), P(2, 1), P(2, 2), P(1, 2), P(0, 2), P(0, 1)>>>>

simple_1 == <<<<P(0, 0), P(1, 1), P(2, 0), P(1, 3), <<1, 8, 2>>, P(0, 3)>>>>

simple_2 ==
    <<<<P(0, 0), P(1, 0), P(2, 0), P(3, 0), P(3, 1), P(3, 2), P(3, 3), P(2, 3), P(1, 3),
        P(0, 3), P(0, 2), P(0, 1)>>>>

hole_1 == <<<<P(-11, 5), P(0, -5), P(10, 5)>>, <<P(-5, 2), P(0, -2), P(4, 2)>>>>

degenerate_empty == <<>>

degenerate_same_position == <<<<P(0, 0), P(0, 0), P(0, 0), P(0, 0), P(0, 0), P(0, 0)>>>>

auto_intersection_type1 == <<<<P(0, 0), P(2, 1), P(0, 2), P(2, 3)>>>>

auto_intersection_type2 == <<<<P(0, 0), P(2, 3), P(2, 1), P(0, 2)>>>>

auto_intersection_multi ==
    <<<<P(20, 20), P(60, 20), P(60, 60), P(20, 60)>>,
      <<P(40, 10), P(70, 40), P(40, 70), P(10, 40)>>>>

\* further paths: a simple polygon with two merge vertices above its last
\* vertex, a path whose split vertex starts an edge that crosses the edge
\* left of it, a polygon with a concave hole (in both vertex orders) and a
\* path with three collinear vertices
two_merges == <<<<P(0, 0), P(1, 2), P(4, 1), P(3, 4), P(5, 3), P(2, 5)>>>>

crossing_split == <<<<P(1, 0), P(0, 3), P(0, 2), P(1, 1), P(2, 4)>>>>

concave_hole ==
    <<<<P(0, 0), P(8, 1), P(9, 7), P(1, 8)>>, <<P(3, 2), P(6, 5), P(4, 4), P(2, 6)>>>>

concave_hole_reversed ==
    <<<<P(0, 0), P(8, 1), P(9, 7), P(1, 8)>>, <<P(3, 2), P(2, 6), P(4, 4), P(6, 5)>>>>

collinear_vertices == <<<<P(0, 0), P(0, 1), P(1, 0), P(0, 2)>>>>

\* a closed sub-path with a Split event in the span right of a pending
\* Merge vertex, the two edges of the Split vertex crossing the edge 1-2
split_below_merge == <<<<P(1, 1), P(4, 0), P(0, 3), P(2, 1), P(4, 2), P(0, 1)>>>>

\* a closed sub-path that repeats two of its positions in consecutive
\* vertices
repeated_vertices == <<<<P(3, 2), P(3, 1), P(1, 2), P(1, 0), P(1, 0), P(3, 2)>>>>

\* two triangles that cross each other in two points: each contour is a
\* simple polygon and the six vertices are pairwise distinct
crossing_triangles ==
    <<<<P(0, 0), P(1, 2), P(3, 2)>>, <<P(1, 1), P(0, 2), P(2, 3)>>>>

\* a simple polygon whose Merge vertex 0 stays pending while vertex 3 of
\* the right chain of the span right of it is passed
merge_right_chain == <<<<P(3, 1), P(0, 1), P(4, 3), P(3, 2), P(4, 0)>>>>

\* the paths run once (test_path) and those run under every rotation
\* (test_path_with_rotations)
PlainPaths ==
    {simple_monotone, degenerate_empty, auto_intersection_type1, auto_intersection_type2,
     auto_intersection_multi, crossing_split, concave_hole, concave_hole_reversed,
     collinear_vertices, repeated_vertices, split_below_merge, crossing_triangles,
     merge_right_chain}

RotatedPaths ==
    {simple_split, simple_merge_split, simple_aligned, simple_1, simple_2, hole_1,
     degenerate_same_position, two_merges}

\* the positions the path builder is given: the points of the grid
Grid == {P(x, y) : x \in 0..GridMax, y \in 0..GridMax}

\* ------------------------------------------------------- state machine

VARIABLES
    input,            \* the path given to the test
    rotating,         \* TRUE under test_path_with_rotations
    turns,            \* the angle of the current run, in quarter turns
    path,             \* the (transformed) path being tesselated
    events,           \* EventVector::events
    next_event,       \* position of tesselate's loop in the sorted events
    spans,            \* SweepLine::spans
    intersections,    \* Tesselator::intersections
    next_new_vertex,  \* Tesselator::next_new_vertex (its vertex id)
    vertices,         \* the sink: positions pushed with push_vertex
    indices,          \* the sink: triangles pushed with push_indices
    panic,            \* "" or the assertion, unreachable!() or index check that aborted the call
    pc,               \* "build", "set_path", "tesselate" or "returned"
    counts,           \* triangle counts of the runs completed so far
    handled,          \* the last dispatch of on_event: vertex, handler, next vertex
    replays,          \* the intersection events replayed in this run: point id and form
    mono,             \* test_monotone_tess: the MonotoneTesselator under test and what it was fed
    table,            \* the IdLookupTable of check_lookup_table
    called,           \* the last method called on table, its arguments, the ids add
                      \* has returned and remove has not been given since (live),
                      \* and the ids given to remove and not returned by add since,
                      \* in the order of their removal (freed)
    vector,           \* the PodFreeListVector
    vector_called,    \* the last method called on vector, its arguments and what it
                      \* returned, the value given to add for each id add has
                      \* returned and remove has not been given since (live), and
                      \* the ids given to remove and not returned by add since (freed)
    id_vec,           \* the IdVec of test_id_vector
    id_vec_called     \* the last method called on id_vec and its arguments

vars == <<input, rotating, turns, path, events, next_event, spans, intersections,
          next_new_vertex, vertices, indices, panic, pc, counts, handled, replays, mono, table, called,
                vector, vector_called, id_vec, id_vec_called>>

NoDispatch == [vertex |-> -1, kind |-> "none", handler |-> "none", next |-> -1]

\* no method of the table called yet
NoCall == [op |-> "none", args |-> <<>>, live |-> {}, freed |-> <<>>, swaps |-> 0]

\* no method of the IdVec called yet
NoIdVecCall == [op |-> "none", args |-> <<>>, old_len |-> 0]

\* no method of the vector called yet
NoVectorCall ==
    [op |-> "none", args |-> <<>>, returned |-> <<>>, live |-> {}, freed |-> <<>>]

\* no MonotoneTesselator under test
NoMono == [pc |-> "none", fed |-> <<>>, tess |-> [stack |-> <<>>, triangles |-> <<>>]]

\* the test either takes one of the paths above or builds a path of one
\* closed sub-path on the grid with a PathBuilder
Init ==
    /\ \/ input \in PlainPaths /\ rotating = FALSE /\ pc = "set_path"
       \/ input \in RotatedPaths /\ rotating = TRUE /\ pc = "set_path"
       \/ input = <<>> /\ rotating = FALSE /\ pc = "build"
    /\ turns = 0
    /\ path = input
    /\ events = <<>>
    /\ next_event = 1
    /\ spans = <<>>
    /\ intersections = <<>>
    /\ next_new_vertex = 0
    /\ vertices = <<>>
    /\ indices = <<>>
    /\ panic = ""
    /\ counts = <<>>
    /\ handled = NoDispatch
    /\ replays = <<>>
    /\ mono = NoMono
    /\ table = new
    /\ called = NoCall
    /\ vector = PodFreeListVector_new
    /\ vector_called = NoVectorCall
    /\ id_vec = IdVec_new
    /\ id_vec_called = NoIdVecCall

Untouched ==
    UNCHANGED <<rotating, turns, events, next_event, spans, intersections,
                next_new_vertex, vertices, indices, panic, counts, handled, replays, mono, table, called,
                vector, vector_called, id_vec, id_vec_called>>

\* PathBuilder::move_to: the first vertex of the sub-path
MoveTo ==
    /\ pc = "build"
    /\ input = <<>>
    /\ \E p \in Grid : input' = <<<<p>>>>
    /\ path' = input'
    /\ pc' = "build"
    /\ Untouched

\* PathBuilder::line_to: one more vertex
LineTo ==
    /\ pc = "build"
    /\ input # <<>>
    /\ Len(input[1]) < MaxVerts
    /\ \E p \in Grid : input' = <<Append(input[1], p)>>
    /\ path' = input'
    /\ pc' = "build"
    /\ Untouched

\* PathBuilder::close and finish: the path goes to the tesselator
Close ==
    /\ pc = "build"
    /\ input # <<>>
    /\ pc' = "set_path"
    /\ UNCHANGED <<input, path>>
    /\ Untouched

\* the tesselator and its sink as the record the methods work on
Tess ==
    [spans |-> spans, intersections |-> intersections,
     next_new_vertex |-> next_new_vertex, vertices |-> vertices,
     indices |-> indices, panic |-> ""]

Becomes(t) ==
    /\ spans' = t.spans
    /\ intersections' = t.intersections
    /\ next_new_vertex' = t.next_new_vertex
    /\ vertices' = t.vertices
    /\ indices' = t.indices
    /\ panic' = t.panic

\* tesselate_path_fill with a Tesselator whose first new vertex id is one
\* more than the number of vertices of the path
SetPath_next_vertex_off_by_one ==
    /\ pc = "set_path"
    /\ events' = set_path(events, path)
    /\ next_event' = 1
    /\ spans' = <<>>
    /\ intersections' = <<>>
    /\ next_new_vertex' = num_vertices(path) + 1
    /\ vertices' = path_vertices(path)
    /\ indices' = <<>>
    /\ panic' = ""
    /\ pc' = "tesselate"
    /\ handled' = NoDispatch
    /\ replays' = <<>>
    /\ UNCHANGED <<input, rotating, turns, path, counts, mono, table, called,
                vector, vector_called, id_vec, id_vec_called>>

\* tesselate_path_fill up to the call of tesselate: the path's vertices go
\* to the sink, the event vector is set to the path and the tesselator is
\* created.  EventVector::from_path calls set_path on a new vector; here the
\* vector of the run before is set to the path, which set_path allows.
SetPath ==
    /\ pc = "set_path"
    /\ events' = set_path(events, path)
    /\ next_event' = 1
    /\ spans' = <<>>
    /\ intersections' = <<>>
    /\ next_new_vertex' = num_vertices(path)
    /\ vertices' = path_vertices(path)
    /\ indices' = <<>>
    /\ panic' = ""
    /\ pc' = "tesselate"
    /\ handled' = NoDispatch
    /\ replays' = <<>>
    /\ UNCHANGED <<input, rotating, turns, path, counts, mono, table, called,
                vector, vector_called, id_vec, id_vec_called>>

Sweeping == pc = "tesselate" /\ panic = "" /\ next_event <= Len(events)

CurrentEvent == Event(path, events[next_event])

\* the condition of the drain loop of tesselate
IntersectionPending ==
    /\ intersections # <<>>
    /\ is_below(CurrentEvent.current.position, intersections[1].point.position)

IntersectionEvent ==
    /\ Sweeping
    /\ IntersectionPending
    /\ Becomes(on_intersection_event([Tess EXCEPT !.intersections = Tail(intersections)],
                                     intersections[1]))
    /\ replays' = Append(replays,
                         [point |-> intersections[1].point.id,
                          kind |-> IntersectionKind(Tess, intersections[1]).kind,
                          before |-> next_event])
    /\ UNCHANGED <<input, rotating, turns, path, events, next_event, pc, counts, handled, mono, table, called,
                vector, vector_called, id_vec, id_vec_called>>

\* the method that ends up handling the event
HandlerName(t, event) ==
    IF EventKind(event) = "up"
    THEN IF find_span_up(t, event.current).is_inside THEN "split" ELSE "start"
    ELSE LET f == find_span_and_side(t, event.current.id)
         IN  IF ~f.found THEN "unreachable"
             ELSE IF EventKind(event) = "down"
                  THEN IF f.side = "Left" THEN "end" ELSE "merge"
                  ELSE IF f.side = "Left" THEN "left" ELSE "right"

\* on_event on the current event, and the loop of tesselate moves on
Dispatch ==
    /\ Becomes(on_event(Tess, CurrentEvent))
    /\ next_event' = next_event + 1
    /\ handled' = [vertex |-> CurrentEvent.current.id,
                   kind |-> EventKind(CurrentEvent),
                   handler |-> HandlerName(Tess, CurrentEvent),
                   next |-> IF EventKind(CurrentEvent) = "regular"
                            THEN RegularNext(CurrentEvent).id ELSE -1]
    /\ UNCHANGED <<input, rotating, turns, path, events, pc, counts, replays, mono, table, called,
                vector, vector_called, id_vec, id_vec_called>>

\* on_event taking the branch of on_down_event (End or Merge)
DownEvent ==
    /\ Sweeping
    /\ ~IntersectionPending
    /\ EventKind(CurrentEvent) = "down"
    /\ Dispatch

\* on_event taking the branch of on_up_event (Start or Split)
UpEvent ==
    /\ Sweeping
    /\ ~IntersectionPending
    /\ EventKind(CurrentEvent) = "up"
    /\ Dispatch

\* on_event taking the branch of on_regular_event (Left or Right)
RegularEvent ==
    /\ Sweeping
    /\ ~IntersectionPending
    /\ EventKind(CurrentEvent) = "regular"
    /\ Dispatch

\* tesselate has gone through the events: tesselate_path_fill returns Ok(())
\* and the test counts the triangles of the sink
Return ==
    /\ pc = "tesselate"
    /\ panic = ""
    /\ next_event > Len(events)
    /\ pc' = "returned"
    /\ counts' = Append(counts, Len(indices))
    /\ UNCHANGED <<input, rotating, turns, path, events, next_event, spans, intersections,
                   next_new_vertex, vertices, indices, panic, handled, replays, mono, table, called,
                vector, vector_called, id_vec, id_vec_called>>

\* the next angle of test_path_with_rotations
NextRotation ==
    /\ pc = "returned"
    /\ rotating
    /\ turns < MaxTurns
    /\ turns' = turns + 1
    /\ path' = transformed_path(input, turns + 1)
    /\ pc' = "set_path"
    /\ UNCHANGED <<input, rotating, events, next_event, spans, intersections,
                   next_new_vertex, vertices, indices, panic, counts, handled, replays, mono, table, called,
                vector, vector_called, id_vec, id_vec_called>>

Next ==
    \/ MoveTo
    \/ LineTo
    \/ Close
    \/ SetPath
    \/ IntersectionEvent
    \/ DownEvent
    \/ UpEvent
    \/ RegularEvent
    \/ Return
    \/ NextRotation

Spec == Init /\ [][Next]_vars

\* ---------------------------------------------------- test_monotone_tess

\* test_monotone_tess feeds a MonotoneTesselator by hand: begin, then up to
\* MaxFeed calls of vertex, then end.  The vertex fed as number k has
\* y = k, so the vertices come in sweep order, and any x of the grid and
\* any side.
MaxFeed == 3

MonoInit ==
    /\ input = <<>> /\ rotating = FALSE /\ pc = "monotone"
    /\ turns = 0
    /\ path = <<>>
    /\ events = <<>>
    /\ next_event = 1
    /\ spans = <<>>
    /\ intersections = <<>>
    /\ next_new_vertex = 0
    /\ vertices = <<>>
    /\ indices = <<>>
    /\ panic = ""
    /\ counts = <<>>
    /\ handled = NoDispatch
    /\ replays = <<>>
    /\ mono = [NoMono EXCEPT !.pc = "new"]
    /\ table = new
    /\ called = NoCall
    /\ vector = PodFreeListVector_new
    /\ vector_called = NoVectorCall
    /\ id_vec = IdVec_new
    /\ id_vec_called = NoIdVecCall

MonoUntouched ==
    UNCHANGED <<input, rotating, turns, path, events, next_event, spans, intersections,
                next_new_vertex, vertices, indices, panic, pc, counts, handled, replays,
                table, called, vector, vector_called, id_vec, id_vec_called>>

\* MonotoneTesselator::begin at the topmost vertex
MtBegin ==
    /\ mono.pc = "new"
    /\ \E x \in 0..GridMax :
          mono' = [pc |-> "fed",
                   fed |-> <<[pos |-> P(x, 0), side |-> "Left"]>>,
                   tess |-> mt_begin(P(x, 0), 0)]
    /\ MonoUntouched

\* MonotoneTesselator::vertex at a vertex of one of the chains
MtVertex ==
    /\ mono.pc = "fed"
    /\ Len(mono.fed) <= MaxFeed
    /\ \E x \in 0..GridMax, side \in {"Left", "Right"} :
          LET pos == P(x, Len(mono.fed))
          IN  /\ mt_vertex_asserts(mono.tess, pos)
              /\ mono' = [pc |-> "fed",
                          fed |-> Append(mono.fed, [pos |-> pos, side |-> side]),
                          tess |-> mt_vertex(mono.tess, pos, Len(mono.fed), side)]
    /\ MonoUntouched

\* MonotoneTesselator::end at the bottommost vertex
MtEnd ==
    /\ mono.pc = "fed"
    /\ Len(mono.fed) >= 2
    /\ \E x \in 0..GridMax :
          LET pos == P(x, Len(mono.fed))
          IN  /\ mt_vertex_asserts(mono.tess, pos)
              /\ mono' = [pc |-> "ended",
                          fed |-> Append(mono.fed,
                                         [pos |-> pos, side |-> opposite(mono.tess.previous.side)]),
                          tess |-> mt_end(mono.tess, pos, Len(mono.fed))]
    /\ MonoUntouched

MonoNext ==
    \/ MtBegin
    \/ MtVertex
    \/ MtEnd

MonoSpec == MonoInit /\ [][MonoNext]_vars

\* ----------------------------------------------------- check_lookup_table

\* check_lookup_table calls the methods of a table made by new() or
\* with_capacity(); here they are called in any order, remove and
\* swap_at_indices with ids add has returned and remove has not been given
\* since, swap_offsets with offsets below len().  Neither array grows
\* beyond MaxIds entries, and a table is given no more than MaxSwaps calls
\* of swap_offsets and swap_at_indices.
MaxIds == 3

MaxSwaps == 1

TableInit ==
    /\ input = <<>> /\ rotating = FALSE /\ pc = "lookup_table"
    /\ turns = 0
    /\ path = <<>>
    /\ events = <<>>
    /\ next_event = 1
    /\ spans = <<>>
    /\ intersections = <<>>
    /\ next_new_vertex = 0
    /\ vertices = <<>>
    /\ indices = <<>>
    /\ panic = ""
    /\ counts = <<>>
    /\ handled = NoDispatch
    /\ replays = <<>>
    /\ mono = NoMono
    /\ \E capacity \in 0..MaxIds : table \in {new, with_capacity(capacity)}
    /\ called = NoCall
    /\ vector = PodFreeListVector_new
    /\ vector_called = NoVectorCall
    /\ id_vec = IdVec_new
    /\ id_vec_called = NoIdVecCall

TableUntouched ==
    UNCHANGED <<input, rotating, turns, path, events, next_event, spans, intersections,
                next_new_vertex, vertices, indices, panic, pc, counts, handled, replays,
                mono, vector, vector_called, id_vec, id_vec_called>>

Add ==
    /\ table.panic = ""
    /\ table.free_list # FREE_LIST_NONE \/ Len(table.index_to_data) < MaxIds
    /\ len(table) < MaxIds
    /\ table' = add(table)
    /\ called' = [called EXCEPT !.op = "add", !.args = <<>>,
                                !.live = called.live \cup {add_returns(table)},
                                !.freed = SelectSeq(called.freed,
                                                    LAMBDA i : i # add_returns(table))]
    /\ TableUntouched

Remove ==
    /\ table.panic = ""
    /\ \E idx \in called.live :
          /\ table' = remove(table, idx)
          /\ called' = [called EXCEPT !.op = "remove", !.args = <<idx>>,
                                      !.live = called.live \ {idx},
                                      !.freed = Append(called.freed, idx)]
    /\ TableUntouched

SwapOffsets ==
    /\ table.panic = ""
    /\ called.swaps < MaxSwaps
    /\ \E o1 \in 0..(len(table) - 1), o2 \in 0..(len(table) - 1) :
          /\ table' = swap_offsets(table, o1, o2)
          /\ called' = [called EXCEPT !.op = "swap_offsets", !.args = <<o1, o2>>,
                                      !.swaps = called.swaps + 1]
    /\ TableUntouched

SwapAtIndices ==
    /\ table.panic = ""
    /\ called.swaps < MaxSwaps
    /\ \E idx1 \in called.live, idx2 \in called.live :
          /\ table' = swap_at_indices(table, idx1, idx2)
          /\ called' = [called EXCEPT !.op = "swap_at_indices", !.args = <<idx1, idx2>>,
                                      !.swaps = called.swaps + 1]
    /\ TableUntouched

Clear ==
    /\ table.panic = ""
    /\ called.op # "none"
    /\ table' = clear(table)
    /\ called' = [called EXCEPT !.op = "clear", !.args = <<>>, !.live = {},
                                !.freed = <<>>]
    /\ TableUntouched

TableNext ==
    \/ Add
    \/ Remove
    \/ SwapOffsets
    \/ SwapAtIndices
    \/ Clear

TableSpec == TableInit /\ [][TableNext]_vars

\* ------------------------------------------------- PodFreeListVector calls

\* The methods of a PodFreeListVector made by new(), called in any order:
\* add with a payload of 1..MaxPayload, remove with an id add has returned
\* and remove has not been given since, borrow and borrow_mut with the
\* index of any slot.  The vector grows to MaxSlots slots at most.  A call
\* that panics ends the run.
MaxSlots == 3

MaxPayload == 2

\* the ids add has returned and remove has not been given since
LiveIds == {e[1] : e \in vector_called.live}

\* the pairs <<id, value>> of q without those of id
Without(q, id) == {e \in q : e[1] # id}

VectorInit ==
    /\ input = <<>> /\ rotating = FALSE /\ pc = "free_list_vector"
    /\ turns = 0
    /\ path = <<>>
    /\ events = <<>>
    /\ next_event = 1
    /\ spans = <<>>
    /\ intersections = <<>>
    /\ next_new_vertex = 0
    /\ vertices = <<>>
    /\ indices = <<>>
    /\ panic = ""
    /\ counts = <<>>
    /\ handled = NoDispatch
    /\ replays = <<>>
    /\ mono = NoMono
    /\ table = new
    /\ called = NoCall
    /\ vector = PodFreeListVector_new
    /\ vector_called = NoVectorCall
    /\ id_vec = IdVec_new
    /\ id_vec_called = NoIdVecCall

VectorUntouched ==
    UNCHANGED <<input, rotating, turns, path, events, next_event, spans, intersections,
                next_new_vertex, vertices, indices, panic, pc, counts, handled, replays,
                mono, table, called, id_vec, id_vec_called>>

VectorAdd ==
    /\ vector.panic = ""
    /\ vector.free_list # FREE_LIST_NONE \/ Len(vector.data) < MaxSlots
    /\ \E val \in 1..MaxPayload :
          LET id == PodFreeListVector_add_returns(vector)
          IN  /\ vector' = PodFreeListVector_add(vector, val)
              /\ vector_called' =
                    [op |-> "add", args |-> <<val>>, returned |-> <<id>>,
                     live |-> Without(vector_called.live, id) \cup {<<id, val>>},
                     freed |-> SelectSeq(vector_called.freed, LAMBDA i : i # id)]
    /\ VectorUntouched

VectorRemove ==
    /\ vector.panic = ""
    /\ \E idx \in LiveIds :
          /\ vector' = PodFreeListVector_remove(vector, idx)
          /\ vector_called' =
                [op |-> "remove", args |-> <<idx>>, returned |-> <<>>,
                 live |-> Without(vector_called.live, idx),
                 freed |-> Append(vector_called.freed, idx)]
    /\ VectorUntouched

VectorBorrow ==
    /\ vector.panic = ""
    /\ \E id \in 0..(Len(vector.data) - 1) :
          LET got == PodFreeListVector_borrow(vector, id)
          IN  /\ vector' = [vector EXCEPT !.panic = got.panic]
              /\ vector_called' =
                    [vector_called EXCEPT !.op = "borrow", !.args = <<id>>,
                                          !.returned = IF got.ok THEN <<got.payload>> ELSE <<>>]
    /\ VectorUntouched

VectorBorrowMut ==
    /\ vector.panic = ""
    /\ \E idx \in 0..(Len(vector.data) - 1) :
          LET got == PodFreeListVector_borrow_mut(vector, idx)
          IN  /\ vector' = [vector EXCEPT !.panic = got.panic]
              /\ vector_called' =
                    [vector_called EXCEPT !.op = "borrow_mut", !.args = <<idx>>,
                                          !.returned = IF got.ok THEN <<got.payload>> ELSE <<>>]
    /\ VectorUntouched

VectorNext ==
    \/ VectorAdd
    \/ VectorRemove
    \/ VectorBorrow
    \/ VectorBorrowMut

VectorSpec == VectorInit /\ [][VectorNext]_vars

\* ------------------------------------------------------- test_id_vector

\* The methods test_id_vector calls on an IdVec made by new(), and clear and
\* resize, called in any order with ids of index 0..MaxIndex and values
\* 0..MaxPayload; push adds no element beyond the index MaxIndex.
MaxIndex == 3

IdVecInit ==
    /\ input = <<>> /\ rotating = FALSE /\ pc = "id_vector"
    /\ turns = 0
    /\ path = <<>>
    /\ events = <<>>
    /\ next_event = 1
    /\ spans = <<>>
    /\ intersections = <<>>
    /\ next_new_vertex = 0
    /\ vertices = <<>>
    /\ indices = <<>>
    /\ panic = ""
    /\ counts = <<>>
    /\ handled = NoDispatch
    /\ replays = <<>>
    /\ mono = NoMono
    /\ table = new
    /\ called = NoCall
    /\ vector = PodFreeListVector_new
    /\ vector_called = NoVectorCall
    /\ id_vec = IdVec_new
    /\ id_vec_called = NoIdVecCall

IdVecUntouched ==
    UNCHANGED <<input, rotating, turns, path, events, next_event, spans, intersections,
                next_new_vertex, vertices, indices, panic, pc, counts, handled, replays,
                mono, table, called, vector, vector_called>>

IdVecPush ==
    /\ IdVec_len(id_vec) <= MaxIndex
    /\ \E elt \in 0..MaxPayload :
          /\ id_vec' = IdVec_push(id_vec, elt)
          /\ id_vec_called' = [op |-> "push", args |-> <<elt>>, old_len |-> IdVec_len(id_vec)]
    /\ IdVecUntouched

IdVecSet ==
    /\ \E id \in 0..MaxIndex, val \in 0..MaxPayload :
          /\ id_vec' = IdVec_set(id_vec, id, val)
          /\ id_vec_called' = [op |-> "set", args |-> <<id, val>>,
                               old_len |-> IdVec_len(id_vec)]
    /\ IdVecUntouched

IdVecResize ==
    /\ \E size \in 0..(MaxIndex + 1) :
          /\ id_vec' = IdVec_resize(id_vec, size)
          /\ id_vec_called' = [op |-> "resize", args |-> <<size>>,
                               old_len |-> IdVec_len(id_vec)]
    /\ IdVecUntouched

IdVecClear ==
    /\ id_vec_called.op # "none"
    /\ id_vec' = IdVec_clear(id_vec)
    /\ id_vec_called' = [op |-> "clear", args |-> <<>>, old_len |-> IdVec_len(id_vec)]
    /\ IdVecUntouched

IdVecNext ==
    \/ IdVecPush
    \/ IdVecSet
    \/ IdVecResize
    \/ IdVecClear

IdVecSpec == IdVecInit /\ [][IdVecNext]_vars

\* ------------------------------------------- geometry of the input paths

Sign(n) == IF n > 0 THEN 1 ELSE IF n < 0 THEN -1 ELSE 0

\* orientation of the triple a, b, c: the sign of its signed area
Orient(a, b, c) == Sign(cross(Dir(b, a), Dir(c, a)))

\* p, collinear with a and b, lies on the closed segment a-b
OnSegment(a, b, p) == dot(Dir(a, p), Dir(b, p)) <= 0

\* the closed segments a-b and c-d have a common point
SegmentsTouch(a, b, c, d) ==
    \/ (Orient(a, b, c) # Orient(a, b, d) /\ Orient(c, d, a) # Orient(c, d, b))
    \/ (Orient(a, b, c) = 0 /\ OnSegment(a, b, c))
    \/ (Orient(a, b, d) = 0 /\ OnSegment(a, b, d))
    \/ (Orient(c, d, a) = 0 /\ OnSegment(c, d, a))
    \/ (Orient(c, d, b) = 0 /\ OnSegment(c, d, b))

Succ(c, i) == (i % Len(c)) + 1

\* the closed contour c is a simple polygon: at least 3 pairwise distinct
\* vertices, no edge doubling back on the one before it, and no two edges
\* that are not neighbours touching
IsSimpleContour(c) ==
    /\ Len(c) >= 3
    /\ \A i, j \in 1..Len(c) : i # j => c[i] # c[j]
    /\ \A i \in 1..Len(c) :
          ~(/\ Orient(c[i], c[Succ(c, i)], c[Succ(c, Succ(c, i))]) = 0
            /\ dot(Dir(c[i], c[Succ(c, i)]),
                   Dir(c[Succ(c, Succ(c, i))], c[Succ(c, i)])) > 0)
    /\ \A i, j \in 1..Len(c) :
          (i < j /\ Succ(c, i) # j /\ Succ(c, j) # i)
              => ~SegmentsTouch(c[i], c[Succ(c, i)], c[j], c[Succ(c, j)])

\* q lies strictly inside the simple contour c (q is not on c)
Inside(c, q) ==
    LET Crossing(i) ==
            LET a == c[i]
                b == c[Succ(c, i)]
            IN  /\ (a[2] * q[3] > q[2] * a[3]) # (b[2] * q[3] > q[2] * b[3])
                /\ RatGreater(line_horizontal_intersection(a, b, <<q[2], q[3]>>),
                              <<q[1], q[3]>>)
    IN  Cardinality({i \in 1..Len(c) : Crossing(i)}) % 2 = 1

ContoursApart(c, d) ==
    \A i \in 1..Len(c), j \in 1..Len(d) :
        ~SegmentsTouch(c[i], c[Succ(c, i)], d[j], d[Succ(d, j)])

\* one simple outer contour and at least one simple hole, the holes strictly
\* inside the outer contour, apart from it and from each other, none inside
\* another
IsPolygonWithHoles(p) ==
    /\ Len(p) >= 2
    /\ \A k \in 1..Len(p) : IsSimpleContour(p[k])
    /\ \A k, m \in 1..Len(p) : k < m => ContoursApart(p[k], p[m])
    /\ \A k \in 2..Len(p) : Inside(p[1], p[k][1])
    /\ \A k, m \in 2..Len(p) : k # m => ~Inside(p[m], p[k][1])

\* the edges of the path, as pairs of positions with the sub-path and place
PathEdges(p) ==
    UNION {{[a |-> p[k][i], b |-> p[k][Succ(p[k], i)], sub |-> k, at |-> i] :
               i \in 1..Len(p[k])} : k \in 1..Len(p)}

\* closed contours of distinct vertices whose edges meet only at the
\* vertices they share and at crossings inside two edges, no two crossings
\* at one point, and with at least one crossing
HasProperCrossingsOnly(p) ==
    LET E == PathEdges(p)
        V == {e.a : e \in E}
        X(e, f) == segment_intersection(e.a, e.b, f.a, f.b)
        Pairs == {pr \in E \X E : pr[1] # pr[2] /\ X(pr[1], pr[2]) # NoPoint}
    IN  /\ p # <<>>
        /\ \A k \in 1..Len(p) : Len(p[k]) >= 3
        /\ Cardinality(V) = num_vertices(p)
        /\ \A e \in E : \A v \in V :
              (v # e.a /\ v # e.b) => ~(Orient(e.a, e.b, v) = 0 /\ OnSegment(e.a, e.b, v))
        /\ \A e, f \in E :
              (e # f /\ e.b = f.a) =>
                  ~(Orient(e.a, e.b, f.b) = 0 /\ dot(Dir(e.a, e.b), Dir(f.b, e.b)) > 0)
        /\ Pairs # {}
        /\ \A pr, qr \in Pairs :
              X(pr[1], pr[2]) = X(qr[1], qr[2]) => {pr[1], pr[2]} = {qr[1], qr[2]}

\* all the vertices of the path have one position
AllSamePosition(p) ==
    /\ p # <<>>
    /\ \A i, j \in 1..num_vertices(p) : path_vertices(p)[i] = path_vertices(p)[j]

\* two vertices of the path at one position, or three consecutive vertices
\* of a sub-path on one line
IsDegenerate(p) ==
    \/ \E i, j \in 1..num_vertices(p) : i # j /\ path_vertices(p)[i] = path_vertices(p)[j]
    \/ \E k \in 1..Len(p) : \E i \in 1..Len(p[k]) :
          Orient(p[k][i], p[k][Succ(p[k], i)], p[k][Succ(p[k], Succ(p[k], i))]) = 0

\* ------------------------------------------------------------ claims

\* the triangles recorded so far: those flushed to the sink and those the
\* open spans still hold
RecordedTriangles ==
    {indices[k] : k \in 1..Len(indices)}
    \cup UNION {{spans[k].monotone_tesselator.triangles[m] :
                    m \in 1..Len(spans[k].monotone_tesselator.triangles)} :
                k \in 1..Len(spans)}

\* the sign of the signed area of a triangle of the sink, in emitted order
TriangleSign(tri) ==
    Orient(vertices[tri[1] + 1], vertices[tri[2] + 1], vertices[tri[3] + 1])

\* C1 (as claimed): the tesselation of one closed simple sub-path of n >= 3
\* pairwise distinct vertices runs to its end and pushes exactly n - 2
\* triangles.
C1_SimplePolygonTriangleCount ==
    \/ Len(path) # 1
    \/ (panic = "" /\ (pc = "returned" => Len(indices) = Len(path[1]) - 2))
    \/ ~IsSimpleContour(path[1])

\* C2: no two recorded triangles have signed areas of opposite signs,
\* whichever span and side produced them.
C2_ConsistentWinding ==
    \A t1, t2 \in RecordedTriangles : TriangleSign(t1) * TriangleSign(t2) >= 0

\* a finished run with two distinct triangles of non zero area, one of them
\* at a vertex created by an intersection
C2_Witness ==
    /\ pc = "returned"
    /\ \E t1, t2 \in RecordedTriangles :
          /\ t1 # t2
          /\ TriangleSign(t1) # 0
          /\ TriangleSign(t2) # 0
          /\ \E k \in 1..3 : t1[k] >= num_vertices(path)

\* C3 (as claimed): a path of closed contours whose edges cross only inside
\* two edges, no two crossings at one point, never makes the tesselator fail
\* an assertion, reach unreachable!() or index a span that does not exist.
C3_ProperCrossingsComplete ==
    \/ panic = ""
    \/ ~HasProperCrossingsOnly(path)

ReplayKinds == [k \in 1..Len(replays) |-> replays[k].kind]

\* C4: the bowtie yields 2 triangles in both vertex orders, its crossing
\* replayed as an up/down split in the first order and as a left/right
\* split in the second, and the square overlapped by a diamond yields 8
\* triangles with its 8 crossings made vertices; none of the three runs
\* aborts.
C4_SelfIntersectionCounts ==
    /\ input \in {auto_intersection_type1, auto_intersection_type2, auto_intersection_multi}
          => panic = ""
    /\ (pc = "returned" /\ input = auto_intersection_type1)
          => (Len(indices) = 2 /\ ReplayKinds = <<"UD">> /\ Len(vertices) = 5)
    /\ (pc = "returned" /\ input = auto_intersection_type2)
          => (Len(indices) = 2 /\ ReplayKinds = <<"LR">> /\ Len(vertices) = 5)
    /\ (pc = "returned" /\ input = auto_intersection_multi)
          => (Len(indices) = 8 /\ Len(replays) = 8 /\ Len(vertices) = 16)

\* the run on the square and the diamond has returned, all crossings replayed
C4_Witness ==
    /\ pc = "returned"
    /\ input = auto_intersection_multi
    /\ intersections = <<>>
    /\ Len(replays) = 8

\* C5 (as claimed): a simple outer contour with h simple holes strictly
\* inside it and apart from each other, n vertices in all, yields exactly
\* n + 2h - 2 triangles.
C5_HolesTriangleCount ==
    \/ Len(path) < 2
    \/ (/\ panic = ""
        /\ pc = "returned" => Len(indices) = num_vertices(path) + 2 * (Len(path) - 1) - 2)
    \/ ~IsPolygonWithHoles(path)

\* C6 (as claimed): on a path with duplicate or collinear points the call
\* does not panic (it returns an error value).
C6_DegenerateInputNoPanic ==
    \/ panic = ""
    \/ ~IsDegenerate(path)

\* C7: on the empty path and on a path all of whose vertices have one
\* position no assertion fails and no triangle is recorded or pushed.
C7_DegenerateNoTriangles ==
    (path = <<>> \/ AllSamePosition(path))
        => (panic = "" /\ indices = <<>> /\ RecordedTriangles = {})

\* the run on a closed path of at least 3 vertices at one position has
\* returned with a count of 0
C7_Witness ==
    /\ pc = "returned"
    /\ AllSamePosition(path)
    /\ num_vertices(path) >= 3
    /\ counts[Len(counts)] = 0

\* C8 (as claimed): the runs of one path under its rotations all yield the
\* same number of triangles.
C8_RotationInvariantCount ==
    \A i, j \in 1..Len(counts) : counts[i] = counts[j]

\* C9: once set_path has run, the events are the vertex ids of the path,
\* each exactly once, in ascending order of y and, for equal y, of x.
C9_EventsSortedPermutation ==
    pc \in {"tesselate", "returned"} =>
        /\ Len(events) = num_vertices(path)
        /\ \A id \in 0..(num_vertices(path) - 1) : \E k \in 1..Len(events) : events[k] = id
        /\ \A i, j \in 1..Len(events) :
              i < j =>
                LET a == vertex_position(path, events[i])
                    b == vertex_position(path, events[j])
                IN  \/ a[2] * b[3] < b[2] * a[3]
                    \/ (a[2] * b[3] = b[2] * a[3] /\ a[1] * b[3] <= b[1] * a[3])

\* set_path has run on a vector that held the events of the run before, for
\* a path with two vertices of equal y whose order the ids do not give
C9_Witness ==
    /\ pc = "tesselate"
    /\ next_event = 1
    /\ turns >= 1
    /\ \E i \in 1..(Len(events) - 1) :
          /\ vertex_position(path, events[i])[2] = vertex_position(path, events[i + 1])[2]
          /\ vertex_position(path, events[i])[1] < vertex_position(path, events[i + 1])[1]
          /\ events[i] > events[i + 1]

\* the place of a vertex in the sweep order, and the strict order on the
\* vertices it gives (vertices at one position are neither before nor after
\* each other)
Rank(id) == CHOOSE k \in 1..Len(events) : events[k] = id

LiesAfter(a, b) ==
    vertex_position(path, a) # vertex_position(path, b) /\ Rank(a) > Rank(b)

LiesBefore(a, b) == LiesAfter(b, a)

Dispatched == pc \in {"tesselate", "returned"} /\ handled.vertex # -1

\* C10 (as claimed): a vertex whose neighbours both lie after it is handled
\* as a down-event, one whose neighbours both lie before it as an up-event.
C10_DispatchAsClaimed ==
    Dispatched =>
        LET v == handled.vertex
            p == path_previous(path, v)
            n == path_next(path, v)
        IN  /\ (LiesAfter(p, v) /\ LiesAfter(n, v)) => handled.kind = "down"
            /\ (LiesBefore(p, v) /\ LiesBefore(n, v)) => handled.kind = "up"

\* C10 (amended): every event is dispatched to one handler by its two
\* neighbours: a vertex whose neighbours both lie before it is handled as a
\* down-event (End or Merge), one whose neighbours both lie after it as an
\* up-event (Start or Split), one with a neighbour before and a neighbour
\* after it as a Regular event (Left or Right) that extends its edge to the
\* neighbour lying after it.
C10_Dispatch ==
    Dispatched =>
        LET v == handled.vertex
            p == path_previous(path, v)
            n == path_next(path, v)
        IN  /\ (LiesBefore(p, v) /\ LiesBefore(n, v))
                  => (handled.kind = "down" /\ handled.handler \in {"end", "merge", "unreachable"})
            /\ (LiesAfter(p, v) /\ LiesAfter(n, v))
                  => (handled.kind = "up" /\ handled.handler \in {"start", "split"})
            /\ (LiesBefore(p, v) /\ LiesAfter(n, v))
                  => (/\ handled.kind = "regular"
                      /\ handled.handler \in {"left", "right", "unreachable"}
                      /\ handled.next = n)
            /\ (LiesAfter(p, v) /\ LiesBefore(n, v))
                  => (/\ handled.kind = "regular"
                      /\ handled.handler \in {"left", "right", "unreachable"}
                      /\ handled.next = p)

\* a Regular event has extended the right edge of its span to the previous
\* vertex of the path, which lies after it
C10_Witness ==
    /\ Dispatched
    /\ panic = ""
    /\ handled.kind = "regular"
    /\ handled.handler = "right"
    /\ handled.next = path_previous(path, handled.vertex)
    /\ LiesAfter(handled.next, handled.vertex)

\* the queue of intersections is in ascending order of y then x
QueueSorted ==
    \A i, j \in 1..Len(intersections) :
        i < j => ~is_below(intersections[i].point.position, intersections[j].point.position)

\* the position of a vertex of the sink
SinkPosition(id) == vertices[id + 1]

\* C11 (as claimed): the queue of intersections is sorted by y then x, the intersections
\* are replayed in that order, each after every main event that precedes
\* its point and before every main event below its point, and when
\* tesselate returns the queue is empty and every vertex created for an
\* intersection has been replayed exactly once.
C11_IntersectionsReplayedInOrder ==
    pc \in {"tesselate", "returned"} =>
        /\ QueueSorted
        /\ \A i, j \in 1..Len(replays) :
              i < j => ~is_below(SinkPosition(replays[i].point), SinkPosition(replays[j].point))
        /\ \A k \in 1..Len(replays) : \A m \in 1..Len(events) :
              LET point == SinkPosition(replays[k].point)
                  main == vertex_position(path, events[m])
              IN  /\ is_below(point, main) => m < replays[k].before
                  /\ is_below(main, point) => m >= replays[k].before
        /\ pc = "returned" =>
              /\ intersections = <<>>
              /\ \A id \in num_vertices(path)..(Len(vertices) - 1) :
                    Cardinality({k \in 1..Len(replays) : replays[k].point = id}) = 1

\* C12: a step that replays an intersection, in either form, takes that
\* intersection from the queue and adds none, creates no vertex and pushes
\* no vertex to the sink; the queue grows only in steps that handle a main
\* event.
C12_ReplayTestsNothing ==
    [][/\ Len(replays') = Len(replays) + 1
          => /\ Len(intersections') = Len(intersections) - 1
             /\ intersections' = Tail(intersections)
             /\ next_new_vertex' = next_new_vertex
             /\ vertices' = vertices
       /\ Len(intersections') > Len(intersections) => next_event' = next_event + 1]_vars

\* intersections have been replayed in the left/right and in the up/down
\* form while others were waiting in the queue
C12_Witness ==
    /\ pc = "tesselate"
    /\ panic = ""
    /\ intersections # <<>>
    /\ \E i, j \in 1..Len(replays) : replays[i].kind = "LR" /\ replays[j].kind = "UD"

\* the intersections detected so far: those waiting in the queue and those
\* replayed
DetectedIds ==
    {intersections[k].point.id : k \in 1..Len(intersections)}
    \cup {replays[k].point : k \in 1..Len(replays)}

\* C13: the vertices created for intersections have the ids num_vertices,
\* num_vertices + 1, ... in the order of their detection, each different
\* from the ids of the path and from each other, each with exactly one
\* position pushed to the sink behind the positions of the path; no step
\* of the tessellation changes or removes a vertex of the sink.
C13_SyntheticVertexIds ==
    /\ [](pc \in {"tesselate", "returned"} =>
            /\ next_new_vertex = Len(vertices)
            /\ SubSeq(vertices, 1, num_vertices(path)) = path_vertices(path)
            /\ Len(intersections) + Len(replays) = Len(vertices) - num_vertices(path)
            /\ DetectedIds = num_vertices(path)..(Len(vertices) - 1)
            /\ \A k \in 1..Len(intersections) :
                  intersections[k].point.position = vertices[intersections[k].point.id + 1])
    /\ [][(pc = "tesselate" /\ pc' = "tesselate") =>
            /\ Len(vertices') >= Len(vertices)
            /\ SubSeq(vertices', 1, Len(vertices)) = vertices
            /\ next_new_vertex' - next_new_vertex = Len(vertices') - Len(vertices)]_vars

\* one main event has detected two intersections, now the vertices
\* num_vertices and num_vertices + 1
C13_Witness ==
    /\ pc = "tesselate"
    /\ panic = ""
    /\ replays = <<>>
    /\ Len(intersections) >= 2
    /\ Len(vertices) = num_vertices(path) + Len(intersections)

\* the segments a main event inserts: none for a down-event, the edge to
\* the neighbour after it for a regular event, both edges for an up-event
NewSegments(event) ==
    IF EventKind(event) = "down" THEN {}
    ELSE IF EventKind(event) = "regular"
         THEN {<<event.current, RegularNext(event)>>}
         ELSE {<<event.current, event.previous>>, <<event.current, event.next>>}

\* the edges of the sweep line that are not parked and share no vertex with
\* the segment
EdgesApartFrom(seg) ==
    {e \in UNION {{spans[k].left, spans[k].right} : k \in 1..Len(spans)} :
        /\ ~e.merge
        /\ {e.upper.id, e.lower.id} \cap {seg[1].id, seg[2].id} = {}}

Crossing(e, seg) ==
    segment_intersection(e.upper.position, e.lower.position, seg[1].position, seg[2].position)

\* a step of tesselate that handles a main event to its end
MainEventStep == pc = "tesselate" /\ next_event' = next_event + 1 /\ panic' = ""

\* C14 (as claimed): a main event that inserts a segment queues an
\* intersection for every crossing of the segment with an edge of the sweep
\* line that is not parked and shares no vertex with it (each such edge is
\* tested), and every intersection it queues is such a crossing.
C14_EveryActiveEdgeTested ==
    [][MainEventStep =>
        /\ \A seg \in NewSegments(CurrentEvent) : \A e \in EdgesApartFrom(seg) :
              Crossing(e, seg) # NoPoint
                  => \E k \in 1..Len(intersections') :
                        /\ intersections'[k].point.id >= next_new_vertex
                        /\ intersections'[k].point.position = Crossing(e, seg)
        /\ \A k \in 1..Len(intersections') :
              intersections'[k].point.id >= next_new_vertex
                  => \E seg \in NewSegments(CurrentEvent) : \E e \in EdgesApartFrom(seg) :
                        intersections'[k].point.position = Crossing(e, seg)]_vars

\* the path is made of closed simple contours: one simple contour, or a
\* simple contour with simple holes inside it
IsSimpleContours ==
    \/ (Len(path) = 1 /\ IsSimpleContour(path[1]))
    \/ (Len(path) >= 2 /\ IsPolygonWithHoles(path))

\* C15 (as claimed): when tesselate returns for a path made of closed
\* simple contours the sweep line holds no span, so no triangle is left in
\* the MonotoneTesselator of a span that was not closed.
C15_NoSpanLeftOpen ==
    \/ pc # "returned"
    \/ spans = <<>>
    \/ ~IsSimpleContours

\* the number of spans from the span at span_index (counted from 0) on
\* whose right edge is parked in merge, one after the other
RECURSIVE PendingMerges(_)
PendingMerges(span_index) ==
    IF span_index < Len(spans) /\ spans[span_index + 1].right.merge
    THEN 1 + PendingMerges(span_index + 1)
    ELSE 0

\* a step of tesselate that handles the current event as an End event
EndEventStep ==
    /\ pc = "tesselate"
    /\ next_event' = next_event + 1
    /\ HandlerName(Tess, CurrentEvent) = "end"

\* C16 (as claimed, for paths made of closed simple contours): an End event
\* at the vertex v, reached through k pending merge vertices, closes k + 1
\* spans, the span whose right edge ends at v among them: no edge of the
\* sweep line ends at v after it.
C16_CascadingClose ==
    [][(EndEventStep /\ IsSimpleContours) =>
        LET v == CurrentEvent.current.id
            k == PendingMerges(find_span_and_side(Tess, v).span_index)
        IN  /\ panic' = ""
            /\ Len(spans') = Len(spans) - (k + 1)
            /\ \A i \in 1..Len(spans') :
                  /\ (~spans'[i].left.merge => spans'[i].left.lower.id # v)
                  /\ (~spans'[i].right.merge => spans'[i].right.lower.id # v)]_vars

\* the edges of the sweep line from left to right, the edges parked in
\* merge left out: a pair of spans joined at a pending merge vertex counts
\* as one region between the left edge of the first and the right edge of
\* the second
ActiveEdges ==
    SelectSeq([k \in 1..(2 * Len(spans)) |->
                  IF k % 2 = 1 THEN spans[(k + 1) \div 2].left ELSE spans[k \div 2].right],
              LAMBDA e : ~e.merge)

RatLess(a, b) == a[1] * b[2] < b[1] * a[2]

\* the least and the greatest x of an edge at the height y of a position:
\* one point, or the two ends of a horizontal edge
EdgeX(e, pos) == line_horizontal_intersection(e.upper.position, e.lower.position,
                                              <<pos[2], pos[3]>>)

EndsX(e) == {<<e.upper.position[1], e.upper.position[3]>>,
             <<e.lower.position[1], e.lower.position[3]>>}

EdgeXMin(e, pos) ==
    IF EdgeX(e, pos) # <<0, 0>> THEN EdgeX(e, pos)
    ELSE CHOOSE x \in EndsX(e) : \A z \in EndsX(e) : ~RatLess(z, x)

EdgeXMax(e, pos) ==
    IF EdgeX(e, pos) # <<0, 0>> THEN EdgeX(e, pos)
    ELSE CHOOSE x \in EndsX(e) : \A z \in EndsX(e) : ~RatLess(x, z)

\* no edge of the sweep line is to the right of the edge after it, at the
\* height of the position
SpansOrdered(pos) ==
    \A i \in 1..(Len(ActiveEdges) - 1) :
        ~RatLess(EdgeXMax(ActiveEdges[i + 1], pos), EdgeXMin(ActiveEdges[i], pos))

\* the position lies between the left and the right edge of a span
LiesInSpan(pos) ==
    \E j \in 1..(Len(ActiveEdges) \div 2) :
        /\ RatLess(EdgeXMax(ActiveEdges[2 * j - 1], pos), <<pos[1], pos[3]>>)
        /\ RatLess(<<pos[1], pos[3]>>, EdgeXMin(ActiveEdges[2 * j], pos))

\* a step of tesselate that handles the current event as an up-event
UpEventStep ==
    /\ pc = "tesselate"
    /\ next_event' = next_event + 1
    /\ EventKind(CurrentEvent) = "up"

\* C17: in the tessellation of closed simple contours the edges of the
\* sweep line are in order from left to right after every event, at the
\* height of the event: the left edge of a span is not right of its right
\* edge, nor the right edge of a span right of the left edge of the next;
\* and an up-event is handled as a Split exactly when its vertex lies
\* between the left and the right edge of a span, as a Start otherwise.
C17_SpansOrdered ==
    /\ [](\/ pc # "tesselate"
          \/ handled.vertex = -1
          \/ SpansOrdered(vertex_position(path, handled.vertex))
          \/ ~IsSimpleContours)
    /\ [][UpEventStep =>
            \/ /\ panic' = ""
               /\ (HandlerName(Tess, CurrentEvent) = "split")
                      <=> LiesInSpan(CurrentEvent.current.position)
            \/ ~IsSimpleContours]_vars

\* a Start event has put its span between two spans of the sweep line of a
\* simple contour
C17_Witness ==
    /\ pc = "tesselate"
    /\ panic = ""
    /\ handled.handler = "start"
    /\ Len(spans) >= 3
    /\ \E k \in 2..(Len(spans) - 1) : spans[k].left.upper.id = handled.vertex
    /\ IsSimpleContours

\* C18: a MonotoneTesselator fed n vertices in sweep order (begin, vertex
\* for each of the n - 2 vertices between, end) holds exactly n - 2
\* triangles, whatever the sides and the positions of the vertices fed;
\* while it is fed, the triangles and the stack together count the
\* vertices fed so far.
C18_MonotoneTriangleCount ==
    /\ mono.pc = "fed" =>
          Len(mono.tess.triangles) + Len(mono.tess.stack) = Len(mono.fed)
    /\ mono.pc = "ended" =>
          Len(mono.tess.triangles) = Len(mono.fed) - 2

\* an ended run of five vertices whose chain vertices are all on the right
\* and whose third vertex is reflex: the pop loop of vertex left the stack
\* as it was
C18_Witness ==
    /\ mono.pc = "ended"
    /\ Len(mono.fed) = 5
    /\ \A i \in 2..4 : mono.fed[i].side = "Right"
    /\ directed_angle(Dir(mono.fed[3].pos, mono.fed[2].pos),
                      Dir(mono.fed[1].pos, mono.fed[2].pos)) > PI
    /\ Len(mono.tess.triangles) = 3

\* the dense and the sparse array of t are inverse of each other on the
\* offsets below len() and on the ids of live
Inverse(t, live) ==
    /\ \A o \in 0..(len(t) - 1) :
          /\ InBounds(t.index_to_data, index_for_offset(t, o))
          /\ lookup(t, index_for_offset(t, o)) = o
    /\ \A i \in live :
          /\ InBounds(t.index_to_data, i)
          /\ InBounds(t.data_to_index, lookup(t, i))
          /\ index_for_offset(t, lookup(t, i)) = i

\* C19: after any sequence of add, remove of a live id, swap_offsets and
\* swap_at_indices on valid arguments, and clear, the dense and the sparse
\* array are inverse of each other: lookup(index_for_offset(o)) = o for
\* every offset o below len(), and every live id i has lookup(i) below
\* len() and index_for_offset(lookup(i)) = i.  (As claimed; swap_offsets
\* of two different offsets breaks it.)
C19_DenseSparseInverse ==
    table.panic = "" => Inverse(table, called.live)

FreeListThreads(t, live, freed) ==
    /\ t.free_list = IF freed = <<>> THEN FREE_LIST_NONE ELSE freed[Len(freed)]
    /\ \A k \in 1..Len(freed) :
          /\ InBounds(t.index_to_data, freed[k])
          /\ At(t.index_to_data, freed[k]) = IF k = 1 THEN FREE_LIST_NONE ELSE freed[k - 1]
    /\ Len(t.index_to_data) = Cardinality(live) + Len(freed)
    /\ len(t) = Cardinality(live)

C22_SwapOffsets ==
    [][(called'.op = "swap_offsets" /\ Inverse(table, called.live)) =>
        LET o1 == called'.args[1]
            o2 == called'.args[2]
            id1 == index_for_offset(table, o1)
            id2 == index_for_offset(table, o2)
        IN  /\ table'.panic = ""
            /\ index_for_offset(table', o1) = id2
            /\ index_for_offset(table', o2) = id1
            /\ lookup(table', id1) = o2
            /\ lookup(table', id2) = o1
            /\ len(table') = len(table)
            /\ called'.live = called.live
            /\ \A j \in called.live \ {id1, id2} : lookup(table', j) = lookup(table, j)
            /\ table'.free_list = table.free_list
            /\ o1 = o2 => table' = table
            /\ swap_offsets(table', o1, o2) = table]_vars

\* C23: after any sequence of add and remove, borrow(id) and
\* borrow_mut(id) fail their assertion for every id that is freed: given
\* to remove and not returned by add since.  (As claimed; the slot of an
\* id removed while the free list was empty carries FREE_LIST_NONE.)
C23_FreedIdsFailBorrow ==
    vector.panic = "" =>
        \A k \in 1..Len(vector_called.freed) :
            /\ ~PodFreeListVector_borrow(vector, vector_called.freed[k]).ok
            /\ ~PodFreeListVector_borrow_mut(vector, vector_called.freed[k]).ok

\* C24: add returns the id of the slot freed last or, when no slot is
\* free, the index of the slot it appends, and never a live id; and for
\* every live id borrow succeeds and returns the value given to the add
\* that returned it.  (As claimed; a reused slot keeps the link it had in
\* the free list.)
C24_AddAndBorrow ==
    /\ [](vector.panic = "" =>
            \A e \in vector_called.live :
                /\ PodFreeListVector_borrow(vector, e[1]).ok
                /\ PodFreeListVector_borrow(vector, e[1]).payload = e[2])
    /\ [][vector_called'.op = "add" =>
            LET id == vector_called'.returned[1]
            IN  /\ id \notin LiveIds
                /\ vector_called.freed # <<>> =>
                      id = vector_called.freed[Len(vector_called.freed)]
                /\ vector_called.freed = <<>> =>
                      /\ id = Len(vector.data)
                      /\ Len(vector'.data) = Len(vector.data) + 1]_vars

\* C25: set(id, v) with index i leaves self[id] = v and len() the greater
\* of the old len() and i + 1; every element at an index below the old
\* len() other than i is as it was, and every slot created between the old
\* len() and i holds the default value.
C25_SetGrows ==
    [][id_vec_called'.op = "set" =>
        LET i == id_vec_called'.args[1]
            v == id_vec_called'.args[2]
            old_len == IdVec_len(id_vec)
        IN  /\ IdVec_len(id_vec') = IF old_len > i + 1 THEN old_len ELSE i + 1
            /\ IdVec_index(id_vec', i) = v
            /\ \A k \in 0..(old_len - 1) :
                  k # i => IdVec_index(id_vec', k) = IdVec_index(id_vec, k)
            /\ \A k \in old_len..(i - 1) : IdVec_index(id_vec', k) = Default]_vars

\* set at index 3 on a vector of one element: len() is 4 and the two slots
\* between hold the default value
C25_Witness ==
    /\ id_vec_called.op = "set"
    /\ id_vec_called.args = <<3, 2>>
    /\ id_vec_called.old_len = 1
    /\ id_vec = <<1, Default, Default, 2>>

\* every contour of the path is a closed simple contour and no two vertices
\* of the path have the same position
SimpleContoursDistinctVertices ==
    /\ path # <<>>
    /\ \A k \in 1..Len(path) : IsSimpleContour(path[k])
    /\ \A k1, k2 \in 1..Len(path) : \A i1 \in 1..Len(path[k1]) : \A i2 \in 1..Len(path[k2]) :
          (k1 # k2 \/ i1 # i2) => path[k1][i1] # path[k2][i2]

\* C26 (as claimed): for a path of closed simple contours with pairwise
\* distinct vertices no internal consistency check fails during tesselate:
\* neither unreachable!() in find_span_and_side, nor the checks of
\* on_merge_event, nor the assertions of MonotoneTesselator::vertex, nor an
\* index check on the spans.
C26_NoConsistencyCheckFails ==
    SimpleContoursDistinctVertices => panic = ""

\* C26 for one simple contour, or a simple contour with simple holes
\* strictly inside it (contours that do not touch each other)
C26_DisjointContours ==
    (SimpleContoursDistinctVertices /\ IsSimpleContours) => panic = ""

\* the product of the denominators of the positions of the contour c, and
\* the position p multiplied by such a common denominator
RECURSIVE DenProduct(_)
DenProduct(c) == IF c = <<>> THEN 1 ELSE c[1][3] * DenProduct(Tail(c))

Whole(p, L) == <<p[1] * (L \div p[3]), p[2] * (L \div p[3])>>

\* twice the area of the contour c, in units of 1 / L^2
RECURSIVE Shoelace(_, _, _)
Shoelace(c, i, L) ==
    IF i > Len(c) THEN 0
    ELSE cross(Whole(c[i], L), Whole(c[Succ(c, i)], L)) + Shoelace(c, i + 1, L)

PolygonArea(c, L) == Abs(Shoelace(c, 1, L))

\* twice the unsigned area of the triangle tri of the sink, same units
TriangleArea(tri, L) ==
    LET a == Whole(vertices[tri[1] + 1], L)
        b == Whole(vertices[tri[2] + 1], L)
        c == Whole(vertices[tri[3] + 1], L)
    IN  Abs(cross(<<b[1] - a[1], b[2] - a[2]>>, <<c[1] - a[1], c[2] - a[2]>>))

RECURSIVE TrianglesArea(_, _)
TrianglesArea(tris, L) ==
    IF tris = <<>> THEN 0 ELSE TriangleArea(tris[1], L) + TrianglesArea(Tail(tris), L)

\* C27 (as claimed): when tesselate returns for a simple polygon, the
\* unsigned areas of the triangles pushed to the sink add up to the area of
\* the polygon, so that the triangles tile it.
C27_TrianglesTileThePolygon ==
    (pc = "returned" /\ Len(path) = 1 /\ IsSimpleContour(path[1]))
        => /\ panic = ""
           /\ TrianglesArea(indices, DenProduct(path[1]))
                  = PolygonArea(path[1], DenProduct(path[1]))

\* C27 for the runs that leave no span open: the triangles cover more than
\* the polygon only if one of them lies outside it or overlaps another one
C27_NoTriangleOutside ==
    (pc = "returned" /\ Len(path) = 1 /\ IsSimpleContour(path[1]) /\ spans = <<>>)
        => TrianglesArea(indices, DenProduct(path[1]))
              <= PolygonArea(path[1], DenProduct(path[1]))

\* C28: from the call of tesselate_path_fill on, every index of a triangle
\* (pushed to the sink, or still held by the MonotoneTesselator of a span)
\* is the push number of a vertex already pushed to the sink; path vertex i
\* is push number i; the vertex of every queued intersection is in the sink
\* under its id; and the triangles a step pushes only use vertices pushed
\* by the end of that step, the sink keeping what it was given before.
C28_IndicesIdentifyPushedVertices ==
    /\ [](pc \in {"tesselate", "returned"} =>
            /\ \A tri \in RecordedTriangles : \A m \in 1..3 :
                  tri[m] \in 0..(Len(vertices) - 1)
            /\ \A i \in 0..(num_vertices(path) - 1) :
                  SinkPosition(i) = vertex_position(path, i)
            /\ \A k \in 1..Len(intersections) :
                  /\ intersections[k].point.id \in num_vertices(path)..(Len(vertices) - 1)
                  /\ SinkPosition(intersections[k].point.id) = intersections[k].point.position)
    /\ [][(pc = "tesselate" /\ pc' = "tesselate") =>
            /\ Len(indices') >= Len(indices)
            /\ SubSeq(indices', 1, Len(indices)) = indices
            /\ \A k \in (Len(indices) + 1)..Len(indices') : \A m \in 1..3 :
                  /\ indices'[k][m] \in 0..(Len(vertices') - 1)
                  /\ indices'[k][m] < Len(vertices)]_vars

\* a returned run whose sink holds a triangle that uses a vertex created
\* for an intersection
C28_Witness ==
    /\ pc = "returned"
    /\ \E k \in 1..Len(indices) : \E m \in 1..3 : indices[k][m] >= num_vertices(path)

\* C29 (as claimed): after every event of a tessellation the edges parked
\* in merge come in adjacent pairs: the right edge of a span is parked
\* exactly when there is a next span and its left edge is parked, the left
\* edge of a span is parked exactly when there is a span before it and its
\* right edge is parked, and the two edges of a pair have the same upper
\* vertex.  The left edge of the first span and the right edge of the last
\* span are then never parked.
C29_ParkedEdgesInPairs ==
    (pc \in {"tesselate", "returned"} /\ panic = "") =>
        \A i \in 1..Len(spans) :
            /\ spans[i].right.merge <=> (i < Len(spans) /\ spans[i + 1].left.merge)
            /\ spans[i].left.merge <=> (i > 1 /\ spans[i - 1].right.merge)
            /\ spans[i].right.merge => spans[i].right.upper = spans[i + 1].left.upper

\* C29 for paths made of closed simple contours
C29_SimpleContours ==
    IsSimpleContours => C29_ParkedEdgesInPairs

\* the boundary segments of the path, each as the ids of its two vertices,
\* and the pairs of them that cross properly: the ends of each lie strictly
\* on both sides of the other
PathSegments == {<<i, path_next(path, i)>> : i \in 0..(num_vertices(path) - 1)}

ProperCrossing(s, u) ==
    LET a == vertex_position(path, s[1])
        b == vertex_position(path, s[2])
        c == vertex_position(path, u[1])
        d == vertex_position(path, u[2])
    IN  /\ Orient(a, b, c) * Orient(a, b, d) = -1
        /\ Orient(c, d, a) * Orient(c, d, b) = -1

ProperCrossings ==
    {c \in SUBSET PathSegments :
        \E s, u \in PathSegments : s # u /\ c = {s, u} /\ ProperCrossing(s, u)}

CrossingPoint(c) ==
    LET s == CHOOSE s \in c : TRUE
        u == CHOOSE u \in c : u # s
    IN  segment_intersection(vertex_position(path, s[1]), vertex_position(path, s[2]),
                             vertex_position(path, u[1]), vertex_position(path, u[2]))

\* the vertices created for intersections that lie at the point q
SyntheticVerticesAt(q) ==
    {id \in num_vertices(path)..(Len(vertices) - 1) : SinkPosition(id) = q}

\* C30 (as claimed): during a tessellation the sink never holds more
\* vertices created for intersections at the point of a proper crossing of
\* two boundary segments than there are such crossings at that point (one
\* Intersection record and one vertex per crossing), and when tesselate
\* returns it holds exactly that many.
C30_OneVertexPerCrossing ==
    pc \in {"tesselate", "returned"} =>
        \A c \in ProperCrossings :
            LET here == {d \in ProperCrossings : CrossingPoint(d) = CrossingPoint(c)}
                made == SyntheticVerticesAt(CrossingPoint(c))
            IN  /\ Cardinality(made) <= Cardinality(here)
                /\ pc = "returned" => Cardinality(made) = Cardinality(here)

\* C30, the part on the crossings that are detected: never two vertices
\* for one crossing
C30_AtMostOneVertexPerCrossing ==
    pc \in {"tesselate", "returned"} =>
        \A c \in ProperCrossings :
            Cardinality(SyntheticVerticesAt(CrossingPoint(c)))
                <= Cardinality({d \in ProperCrossings : CrossingPoint(d) = CrossingPoint(c)})

====
